---- MODULE Spec2Model ----
(***************************************************************************)
(* A model of the Kruise advanced StatefulSet control loop                 *)
(* (pkg/controller/statefulset/stateful_set_control.go).                   *)
(*                                                                         *)
(* One reconcile pass (UpdateStatefulSet) is one action.  It reads the     *)
(* set, the revision history and a snapshot of the pod store, and issues   *)
(* calls on the pod control, the status updater and the revision history.  *)
(* Between passes the environment advances pod phases, fails or removes    *)
(* pods, and the user edits the set.                                       *)
(***************************************************************************)
EXTENDS Integers, Sequences, FiniteSets, TLC

VARIABLES
    set,        \* the StatefulSet object: its spec fields and its persisted status
    pods,       \* the pod store, by ordinal (the informer's indexer)
    revisions,  \* the persisted ControllerRevisions of the set
    last        \* what the last reconcile pass read and did (reset by every other step)

vars == <<set, pods, revisions, last>>

---------------------------------------------------------------------------
(* Bounds of the model.                                                    *)

\* Ordinals 0 .. MaxReplicas-1 exist; spec.replicas ranges over 0 .. MaxReplicas.
MaxReplicas == 3
\* Pod templates are numbered 1 .. MaxTemplate.
MaxTemplate == 3
\* The user stops editing the template once a revision carries this Revision number.
MaxRevision == 3
\* The injected collaborator error hits the call number 0 .. MaxFailAfter of its kind.
MaxFailAfter == 1

\* firstUnhealthyOrdinal := math.MaxInt32
MaxInt32 == 2147483647

Ordinals == 0 .. (MaxReplicas - 1)
Templates == 1 .. MaxTemplate

---------------------------------------------------------------------------
(* Pods.  A pod is a record                                                *)
(*   ord    the ordinal parsed from its name                               *)
(*   phase  "None" (no phase: the object was never created), "Pending",    *)
(*          "Running" or "Failed"                                          *)
(*   ready  the PodReady condition                                         *)
(*   term   deletionTimestamp is set                                       *)
(*   rev    the controller-revision-hash label (a revision name)           *)
(*   cond   the InPlaceUpdateReady condition: "None", "True" or "False"    *)
(*   ipp    an in-place update was issued and the container imageID has    *)
(*          not changed yet                                                *)
(*   ok     identity labels and volume claims match the set                *)

NoPod ==
    [ord |-> -1, phase |-> "None", ready |-> FALSE, term |-> FALSE, rev |-> 0,
     cond |-> "None", ipp |-> FALSE, ok |-> TRUE]

\* newStatefulSetPod + setPodRevision: a fresh in-memory pod object
newStatefulSetPod(ord, rev) ==
    [ord |-> ord, phase |-> "None", ready |-> FALSE, term |-> FALSE, rev |-> rev,
     cond |-> "None", ipp |-> FALSE, ok |-> TRUE]

getOrdinal(pod) == pod.ord
getPodRevision(pod) == pod.rev
isCreated(pod) == pod.phase # "None"
isTerminating(pod) == pod.term
isFailed(pod) == pod.phase = "Failed"
isRunningAndReady(pod) == pod.phase = "Running" /\ pod.ready

\* healthy: created, not terminating, running and ready, and InPlaceUpdateReady
\* True when the set's template declares that readiness gate
isHealthy(s, pod) ==
    /\ isCreated(pod)
    /\ ~isTerminating(pod)
    /\ isRunningAndReady(pod)
    /\ (s.gate => pod.cond = "True")

\* nil when the last in-place update is complete or there was none
checkInPlaceUpdateCompleted(pod) == pod.ipp

\* the gate is declared, the last in-place update is observed complete, and
\* the condition is not True yet
shouldUpdateInPlaceReady(s, pod) ==
    /\ s.gate
    /\ ~checkInPlaceUpdateCompleted(pod)
    /\ pod.cond # "True"

identityMatches(pod) == pod.ok
storageMatches(pod) == pod.ok

allowsBurst(s) == s.policy = "Parallel"
isInPlaceOnly(s) == s.strategy = "RollingUpdate" /\ s.podUpdatePolicy = "InPlaceOnly"

\* The minimum ordinal of the update range: the partition of a RollingUpdate
\* block, 0 without one.
Partition(s) == IF s.strategy = "RollingUpdate" THEN s.partition ELSE 0

\* intstr.GetValueFromIntOrPercent(ValueOrDefault(maxUnavailable, 1), replicas, false)
GetValueFromIntOrPercent(mu, total) ==
    CASE mu.type = "nil" -> 1
      [] mu.type = "int" -> mu.val
      [] OTHER -> (mu.val * total) \div 100

---------------------------------------------------------------------------
(* Revisions.  A ControllerRevision is [name, tmpl, num]: its name (derived *)
(* from the hash of the template it captures), the captured template and   *)
(* its Revision number.                                                    *)

\* Templates 2k-1 and 2k differ in a container image only; any other pair
\* differs structurally.
Base(t) == (t + 1) \div 2

\* the name newRevision derives from the template hash
RevisionName(t) == t

\* history.EqualRevision: equality of the captured payload
EqualRevision(a, b) == a.tmpl = b.tmpl

RECURSIVE SortByNum(_)
\* history.SortControllerRevisions: ascending Revision
SortByNum(rs) ==
    IF rs = {} THEN <<>>
    ELSE LET r == CHOOSE x \in rs : \A y \in rs : x.num <= y.num
         IN <<r>> \o SortByNum(rs \ {r})

\* ListRevisions followed by history.SortControllerRevisions
ListRevisions == SortByNum(revisions)

\* nextRevision: one more than the newest Revision, 1 for an empty history
nextRevision(revs) == IF Len(revs) = 0 THEN 1 ELSE revs[Len(revs)].num + 1

\* newRevision: the candidate revision of the set's current template
newRevision(s, num) == [name |-> RevisionName(s.template), tmpl |-> s.template, num |-> num]

\* history.FindEqualRevisions
FindEqualRevisions(revs, needle) ==
    SelectSeq(revs, LAMBDA r : EqualRevision(r, needle))

\* a faulty test of line 212: the template never counts as changed
UnchangedAlways(revs, equalRevisions) == TRUE

\* a faulty test of line 212: a template counts as unchanged whenever the
\* history is not empty
UnchangedIfListed(revs, equalRevisions) == Len(revs) > 0

\* a faulty test of line 212: any equal revision counts, newest or not
UnchangedIfAnyEqual(revs, equalRevisions) == Len(equalRevisions) > 0

\* a faulty test of line 212: the template always counts as changed
UnchangedNever(revs, equalRevisions) == FALSE

\* line 212: an equal revision exists and the newest revision is equal to the
\* last of them: the template has not changed since the newest revision
Unchanged(revs, equalRevisions) ==
    /\ Len(equalRevisions) > 0
    /\ EqualRevision(revs[Len(revs)], equalRevisions[Len(equalRevisions)])

\* a faulty CurrentRevisionOf: the update revision is the current one whenever
\* it carries the name the status holds
CurrentRevisionOfPrefersUpdate(s, revs, updateRevision) ==
    LET found == SelectSeq(revs, LAMBDA r : r.name = s.status.currentRevision)
    IN IF Len(found) = 0 \/ updateRevision.name = s.status.currentRevision
       THEN updateRevision
       ELSE found[Len(found)]

\* a faulty CurrentRevisionOf: the newest listed revision stands in when the
\* status names none
CurrentRevisionOfNewest(s, revs, updateRevision) ==
    LET found == SelectSeq(revs, LAMBDA r : r.name = s.status.currentRevision)
    IN IF Len(found) > 0 THEN found[Len(found)]
       ELSE IF Len(revs) > 0 THEN revs[Len(revs)]
       ELSE updateRevision

\* lines 232-242: the listed revision that status.currentRevision names, the
\* update revision when there is none
CurrentRevisionOf(s, revs, updateRevision) ==
    LET found == SelectSeq(revs, LAMBDA r : r.name = s.status.currentRevision)
    IN IF Len(found) = 0 THEN updateRevision ELSE found[Len(found)]

\* getStatefulSetRevisions: the current and the update revision, the revision
\* store after the call and the writes made on it
getStatefulSetRevisions(s, revs) ==
    LET revisionCount == Len(revs)
        candidate == newRevision(s, nextRevision(revs))
        equalRevisions == FindEqualRevisions(revs, candidate)
        equalCount == Len(equalRevisions)
        unchanged == Unchanged(revs, equalRevisions)
        bumped == [equalRevisions[equalCount] EXCEPT !.num = candidate.num]
        updateRevision ==
            IF unchanged THEN revs[revisionCount]
            ELSE IF equalCount > 0 THEN bumped
            ELSE candidate
        stored ==
            IF unchanged THEN revisions
            ELSE IF equalCount > 0
                 THEN (revisions \ {equalRevisions[equalCount]}) \cup {bumped}
            ELSE revisions \cup {candidate}
        writes ==
            IF unchanged THEN <<>>
            ELSE IF equalCount > 0 THEN <<[kind |-> "revUpdate", name |-> bumped.name]>>
            ELSE <<[kind |-> "revCreate", name |-> candidate.name]>>
    IN [cur |-> CurrentRevisionOf(s, revs, updateRevision), upd |-> updateRevision,
        stored |-> stored, writes |-> writes]

\* shouldDoInPlaceUpdate: in place when the pod update policy asks for it and
\* the pod's revision is listed and differs from the update revision in
\* container images only
shouldDoInPlaceUpdate(s, updateRevision, podRevision, revs) ==
    /\ s.strategy = "RollingUpdate"
    /\ s.podUpdatePolicy \in {"InPlaceIfPossible", "InPlaceOnly"}
    /\ \E k \in 1 .. Len(revs) :
          /\ revs[k].name = podRevision
          /\ revs[k].tmpl # updateRevision.tmpl
          /\ Base(revs[k].tmpl) = Base(updateRevision.tmpl)

\* newVersionedStatefulSetPod: below the partition a pod is rendered from the
\* current revision, otherwise from the update revision
newVersionedStatefulSetPod(s, currentRevision, updateRevision, ord) ==
    IF ord < Partition(s)
    THEN newStatefulSetPod(ord, currentRevision)
    ELSE newStatefulSetPod(ord, updateRevision)

---------------------------------------------------------------------------
(* The pod control.  A call is logged as [kind, ord, sweep, ok, arg]; the  *)
(* injected error `fail` = [kind, after] makes the call number `after` of  *)
(* that kind (counted within the pass, from 0) return an error.            *)

NoFail == [kind |-> "none", after |-> 0]

Issued(p, kind) == Len(SelectSeq(p.ops, LAMBDA o : o.kind = kind))

\* requestTracker.errorReady
errorReady(p, kind) == p.fail.kind = kind /\ Issued(p, kind) = p.fail.after

Log(p, kind, ord, sweep, ok, arg) ==
    [p EXCEPT !.ops = Append(@, [kind |-> kind, ord |-> ord, sweep |-> sweep,
                                 ok |-> ok, arg |-> arg])]

\* a faulty ReturnErr: the error is kept and the pass goes on
ReturnErrGoesOn(p) == [p EXCEPT !.err = TRUE]

\* `return &status, err`
ReturnErr(p) == [p EXCEPT !.ret = TRUE, !.err = TRUE]
\* `return &status, nil`
ReturnNil(p) == [p EXCEPT !.ret = TRUE]

\* CreateStatefulPod: the pod enters the store (with a phase: it is created)
CreateStatefulPod(p, pod, sweep) ==
    IF errorReady(p, "create")
    THEN ReturnErr(Log(p, "create", pod.ord, sweep, FALSE, ""))
    ELSE [Log(p, "create", pod.ord, sweep, TRUE, "")
            EXCEPT !.store[pod.ord] = [pod EXCEPT !.phase = "Pending"]]

\* DeleteStatefulPod: the pod leaves the store
DeleteStatefulPod(p, pod, sweep) ==
    IF errorReady(p, "delete")
    THEN ReturnErr(Log(p, "delete", pod.ord, sweep, FALSE, ""))
    ELSE [Log(p, "delete", pod.ord, sweep, TRUE, "")
            EXCEPT !.store[pod.ord] = NoPod]

\* UpdateStatefulPod: identity and storage of the stored pod are repaired
UpdateStatefulPod(p, pod, sweep) ==
    IF errorReady(p, "update")
    THEN ReturnErr(Log(p, "update", pod.ord, sweep, FALSE, ""))
    ELSE [Log(p, "update", pod.ord, sweep, TRUE, "")
            EXCEPT !.store[pod.ord] = [pod EXCEPT !.ok = TRUE],
                   !.mem[pod.ord] = [pod EXCEPT !.ok = TRUE]]

\* UpdateStatefulPodCondition: the condition is set on the pod object the
\* pass holds and on the stored pod
UpdateStatefulPodCondition(p, pod, value, sweep) ==
    IF errorReady(p, "cond")
    THEN [Log(p, "cond", pod.ord, sweep, FALSE, value) EXCEPT !.callErr = TRUE]
    ELSE [Log(p, "cond", pod.ord, sweep, TRUE, value)
            EXCEPT !.store[pod.ord] = [pod EXCEPT !.cond = value],
                   !.mem[pod.ord] = [pod EXCEPT !.cond = value],
                   !.callErr = FALSE]

\* InPlaceUpdateStatefulPod: the stored pod gets the images and the revision
\* label of the update revision; the imageID it runs is recorded
InPlaceUpdateStatefulPod(p, pod, updateRevision, sweep) ==
    IF errorReady(p, "inplace")
    THEN [Log(p, "inplace", pod.ord, sweep, FALSE, "") EXCEPT !.callErr = TRUE]
    ELSE [Log(p, "inplace", pod.ord, sweep, TRUE, "")
            EXCEPT !.store[pod.ord] = [pod EXCEPT !.rev = updateRevision, !.ipp = TRUE],
                   !.callErr = FALSE]

\* a faulty PatchImages: the images are patched whatever the condition update
\* returned
PatchImagesAlways(q, pod, updateRevision) ==
    InPlaceUpdateStatefulPod(q, q.mem[pod.ord], updateRevision, "update")

\* lines 612-620: the image patch, unless the condition update failed
PatchImages(q, pod, updateRevision) ==
    IF q.callErr THEN q
    ELSE InPlaceUpdateStatefulPod(q, q.mem[pod.ord], updateRevision, "update")

\* inPlaceUpdatePod: InPlaceUpdateReady=False first, then the image patch;
\* callErr tells whether it returned an error
inPlaceUpdatePod(p, pod, updateRevision) ==
    PatchImages(UpdateStatefulPodCondition(p, pod, "False", "update"), pod, updateRevision)

---------------------------------------------------------------------------
(* updateStatefulSet.  The pass state p holds                              *)
(*   store    the pod store as written so far                              *)
(*   mem      the `replicas` slice, indexed by ordinal                     *)
(*   st       the status being computed                                    *)
(*   ops      the pod control calls issued so far                          *)
(*   seen     the update sweep's steps: [ord, disrupted, counted]          *)
(*   unavail  len(unavailablePods)                                         *)
(*   ret/err  the function has returned / returned an error                *)

RECURSIVE CountPodsPlaced(_, _, _, _)
\* a faulty CountPods: a pod whose name yields no ordinal is not counted
CountPodsPlaced(snapshot, k, cur, upd) ==
    IF k = 0
    THEN [replicas |-> 0, readyReplicas |-> 0, currentReplicas |-> 0, updatedReplicas |-> 0]
    ELSE LET st == CountPodsPlaced(snapshot, k - 1, cur, upd)
             pod == snapshot[k]
             live == isCreated(pod) /\ ~isTerminating(pod)
         IN IF getOrdinal(pod) < 0 THEN st
            ELSE [replicas |-> st.replicas + 1,
                  readyReplicas |-> st.readyReplicas
                      + (IF isRunningAndReady(pod) THEN 1 ELSE 0),
                  currentReplicas |-> st.currentReplicas
                      + (IF live /\ getPodRevision(pod) = cur THEN 1 ELSE 0),
                  updatedReplicas |-> st.updatedReplicas
                      + (IF live /\ getPodRevision(pod) = upd THEN 1 ELSE 0)]

RECURSIVE CountPods(_, _, _, _)
\* the first loop over pods: status counters
CountPods(snapshot, k, cur, upd) ==
    IF k = 0
    THEN [replicas |-> 0, readyReplicas |-> 0, currentReplicas |-> 0, updatedReplicas |-> 0]
    ELSE LET st == CountPods(snapshot, k - 1, cur, upd)
             pod == snapshot[k]
             live == isCreated(pod) /\ ~isTerminating(pod)
         IN [replicas |-> st.replicas + 1,
             readyReplicas |-> st.readyReplicas + (IF isRunningAndReady(pod) THEN 1 ELSE 0),
             currentReplicas |-> st.currentReplicas
                 + (IF live /\ getPodRevision(pod) = cur THEN 1 ELSE 0),
             updatedReplicas |-> st.updatedReplicas
                 + (IF live /\ getPodRevision(pod) = upd THEN 1 ELSE 0)]

RECURSIVE PlaceReplicasKeepsFirst(_, _, _)
\* a faulty PlaceReplicas: a slot that is taken is not overwritten
PlaceReplicasKeepsFirst(snapshot, k, replicaCount) ==
    IF k = 0 THEN [o \in 0 .. (replicaCount - 1) |-> NoPod]
    ELSE LET placed == PlaceReplicasKeepsFirst(snapshot, k - 1, replicaCount)
             ord == getOrdinal(snapshot[k])
         IN IF 0 <= ord /\ ord < replicaCount /\ placed[ord] = NoPod
            THEN [placed EXCEPT ![ord] = snapshot[k]]
            ELSE placed

RECURSIVE PlaceReplicas(_, _, _)
\* the first loop over pods: replicas[ord] = pods[i] for 0 <= ord < replicaCount
PlaceReplicas(snapshot, k, replicaCount) ==
    IF k = 0 THEN [o \in 0 .. (replicaCount - 1) |-> NoPod]
    ELSE LET placed == PlaceReplicas(snapshot, k - 1, replicaCount)
             ord == getOrdinal(snapshot[k])
         IN IF 0 <= ord /\ ord < replicaCount
            THEN [placed EXCEPT ![ord] = snapshot[k]]
            ELSE placed

RECURSIVE InsertByOrdinal(_, _)
InsertByOrdinal(sorted, pod) ==
    IF Len(sorted) = 0 THEN <<pod>>
    ELSE IF getOrdinal(sorted[Len(sorted)]) <= getOrdinal(pod) THEN Append(sorted, pod)
    ELSE Append(InsertByOrdinal(SubSeq(sorted, 1, Len(sorted) - 1), pod), sorted[Len(sorted)])

RECURSIVE CondemnedWithForeign(_, _, _)
\* a faulty Condemned: every pod outside [0, replicaCount) is condemned
CondemnedWithForeign(snapshot, k, replicaCount) ==
    IF k = 0 THEN <<>>
    ELSE LET rest == CondemnedWithForeign(snapshot, k - 1, replicaCount)
         IN IF ~(0 <= getOrdinal(snapshot[k]) /\ getOrdinal(snapshot[k]) < replicaCount)
            THEN InsertByOrdinal(rest, snapshot[k])
            ELSE rest

RECURSIVE Condemned(_, _, _)
\* the pods with ord >= replicaCount, then sort.Sort(ascendingOrdinal(condemned))
Condemned(snapshot, k, replicaCount) ==
    IF k = 0 THEN <<>>
    ELSE LET rest == Condemned(snapshot, k - 1, replicaCount)
         IN IF getOrdinal(snapshot[k]) >= replicaCount
            THEN InsertByOrdinal(rest, snapshot[k])
            ELSE rest

RECURSIVE FirstUnhealthy(_, _, _, _)
\* the two loops that find firstUnhealthyOrdinal, over replicas then condemned
FirstUnhealthy(s, list, k, best) ==
    IF k > Len(list) THEN best
    ELSE FirstUnhealthy(s, list, k + 1,
            IF ~isHealthy(s, list[k]) /\ getOrdinal(list[k]) < best
            THEN getOrdinal(list[k]) ELSE best)

\* the status counters after a pod of this revision is deleted (-1) or created (+1)
Adjust(st, c, pod, d, withReplicas) ==
    [st EXCEPT
        !.currentReplicas = @ + (IF getPodRevision(pod) = c.cur.name THEN d ELSE 0),
        !.updatedReplicas = @ + (IF getPodRevision(pod) = c.upd.name THEN d ELSE 0),
        !.replicas = @ + (IF withReplicas THEN d ELSE 0)]

\* a faulty ReplaceFailed: the slice keeps the failed pod
ReplaceFailedKeepsPod(c, q, pod, i) ==
    IF q.ret THEN q ELSE [q EXCEPT !.st = Adjust(@, c, pod, -1, TRUE)]

\* lines 379-396: after the delete of a failed pod the counters drop and the
\* slice entry is a fresh pod object
ReplaceFailed(c, q, pod, i) ==
    IF q.ret THEN q
    ELSE [q EXCEPT !.st = Adjust(@, c, pod, -1, TRUE),
                   !.mem[i] = newVersionedStatefulSetPod(c.set, c.cur.name, c.upd.name, i)]

\* lines 375-397: delete a failed pod and replace the slice entry
RecreateFailed(c, p, i) ==
    IF ~isFailed(p.mem[i]) THEN p
    ELSE ReplaceFailed(c, DeleteStatefulPod(p, p.mem[i], "forward"), p.mem[i], i)

\* a faulty WaitsForTermination: no pass waits for a terminating pod
WaitsForTerminationNever(c, pod) == FALSE

\* line 420: a terminating pod makes a monotonic pass wait
WaitsForTermination(c, pod) == isTerminating(pod) /\ c.monotonic

\* a faulty WaitsForReady: the pass never waits for readiness
WaitsForReadyNever(c, pod) == FALSE

\* line 445: a pod that is not running and ready makes a monotonic pass wait
WaitsForReady(c, pod) == ~isRunningAndReady(pod) /\ c.monotonic

\* a faulty AfterCreate: the pass goes on after a create under either policy
AfterCreateGoesOn(c, p) == p

\* a faulty AfterCreate: the pass returns after a create under either policy
AfterCreateReturns(c, p) == ReturnNil(p)

\* lines 411-416: after a create a monotonic pass returns, a burst pass goes on
AfterCreate(c, p) == IF c.monotonic THEN ReturnNil(p) ELSE p

\* lines 400-416: the outcome of the create call
Created(c, r, pod) ==
    IF r.ret THEN r
    ELSE AfterCreate(c, [r EXCEPT !.st = Adjust(@, c, pod, 1, TRUE)])

\* a faulty NeedsRepair: identity and storage are never enforced
NeedsRepairNever(pod) == FALSE

\* line 454: the pod's identity or its storage does not match the set
NeedsRepair(pod) == ~(identityMatches(pod) /\ storageMatches(pod))

\* lines 436-461: after the InPlaceUpdateReady call
AfterReadyCondition(c, q, i) ==
    IF q.callErr THEN ReturnErr(q)
    ELSE IF WaitsForReady(c, q.mem[i]) THEN ReturnNil(q)
    ELSE IF ~NeedsRepair(q.mem[i]) THEN q
    ELSE UpdateStatefulPod(q, q.mem[i], "forward")

\* a faulty ExamineCreated: InPlaceUpdateReady is never set to True
ExamineCreatedLeavesCondition(c, p, i) ==
    IF WaitsForTermination(c, p.mem[i]) THEN ReturnNil(p)
    ELSE AfterReadyCondition(c, [p EXCEPT !.callErr = FALSE], i)

\* lines 418-461: a created pod of the forward sweep
ExamineCreated(c, p, i) ==
    IF WaitsForTermination(c, p.mem[i]) THEN ReturnNil(p)
    ELSE AfterReadyCondition(c,
             IF shouldUpdateInPlaceReady(c.set, p.mem[i])
             THEN UpdateStatefulPodCondition(p, p.mem[i], "True", "forward")
             ELSE [p EXCEPT !.callErr = FALSE],
             i)

\* lines 398-462: the slice entry after the failed-pod check
CreateOrExamine(c, q, i) ==
    IF q.ret THEN q
    ELSE IF ~isCreated(q.mem[i])
    THEN Created(c, CreateStatefulPod(q, q.mem[i], "forward"), q.mem[i])
    ELSE ExamineCreated(c, q, i)

\* lines 373-462: one iteration of the forward sweep
ForwardStep(c, p, i) == CreateOrExamine(c, RecreateFailed(c, p, i), i)

RECURSIVE ForwardSweep(_, _, _)
ForwardSweep(c, p, i) ==
    IF p.ret \/ i >= c.replicaCount THEN p
    ELSE ForwardSweep(c, ForwardStep(c, p, i), i + 1)

\* a faulty AfterTerminatingCondemned: the pass goes on past a terminating
\* condemned pod
AfterTerminatingCondemnedGoesOn(c, p) == p

\* lines 471-482: a terminating condemned pod blocks a monotonic pass
AfterTerminatingCondemned(c, p) == IF c.monotonic THEN ReturnNil(p) ELSE p

\* a faulty ScaleDownBlocked: a monotonic pass deletes no condemned pod
ScaleDownBlockedMonotonic(c, pod) == c.monotonic

\* a faulty ScaleDownBlocked: the first unhealthy pod is not looked at
ScaleDownBlockedNever(c, pod) == FALSE

\* line 484: a monotonic pass does not delete a condemned pod that is not
\* running and ready unless it is the first unhealthy pod
ScaleDownBlocked(c, pod) ==
    /\ ~isRunningAndReady(pod)
    /\ c.monotonic
    /\ getOrdinal(pod) # c.firstUnhealthyOrdinal

\* a faulty AfterScaleDownDelete: the sweep goes on after a delete
AfterScaleDownDeleteGoesOn(c, p) == p

\* lines 506-508: after a scale-down delete a monotonic pass returns
AfterScaleDownDelete(c, p) == IF c.monotonic THEN ReturnNil(p) ELSE p

\* lines 496-508: the outcome of the delete of a condemned pod
Condemn(c, q, pod) ==
    IF q.ret THEN q
    ELSE AfterScaleDownDelete(c, [q EXCEPT !.st = Adjust(@, c, pod, -1, FALSE)])

\* lines 469-509: one iteration of the scale-down sweep
ScaleDownStep(c, p, pod) ==
    IF isTerminating(pod) THEN AfterTerminatingCondemned(c, p)
    ELSE IF ScaleDownBlocked(c, pod) THEN ReturnNil(p)
    ELSE Condemn(c, DeleteStatefulPod(p, pod, "scaledown"), pod)

RECURSIVE ScaleDownSweep(_, _, _)
ScaleDownSweep(c, p, target) ==
    IF p.ret \/ target < 1 THEN p
    ELSE ScaleDownSweep(c, ScaleDownStep(c, p, c.condemned[target]), target - 1)

\* a faulty NeedsUpdate: a pod that is not healthy is updated as well
NeedsUpdateUnhealthy(c, pod) ==
    ~isTerminating(pod) /\ (getPodRevision(pod) # c.upd.name \/ ~isHealthy(c.set, pod))

\* line 532: the pod does not match the update revision and is not terminating
NeedsUpdate(c, pod) == getPodRevision(pod) # c.upd.name /\ ~isTerminating(pod)

\* a faulty CountsUnavailable: no pod counts
CountsUnavailableNever(c, pod, isInPlaceUpdateCompleted) == FALSE

\* a faulty CountsUnavailable: only the revision counts
CountsUnavailableByRevision(c, pod, isInPlaceUpdateCompleted) ==
    getPodRevision(pod) # c.upd.name

\* lines 570-579: the pod counts as unavailable
CountsUnavailable(c, pod, isInPlaceUpdateCompleted) ==
    \/ getPodRevision(pod) # c.upd.name
    \/ ~isHealthy(c.set, pod)
    \/ isInPlaceUpdateCompleted

\* a faulty WindowFull: the sweep waits one unavailable pod too late
WindowFullLate(c, unavail) == unavail > c.maxUnavailable

\* line 582: the sweep waits once maxUnavailable pods are unavailable
WindowFull(c, unavail) == unavail >= c.maxUnavailable

\* a faulty UpdateMin: the partition is ignored
UpdateMinZero(s) == 0

\* a faulty UpdateMin: the sweep stops one ordinal above the partition
UpdateMinOneMore(s) == Partition(s) + 1

\* lines 517-520: the minimum ordinal of the update sweep
UpdateMin(s) == Partition(s)

\* a faulty MaxUnavailable: the window is never below 1
MaxUnavailableAtLeastOne(s, replicaCount) ==
    IF s.strategy = "RollingUpdate"
       /\ GetValueFromIntOrPercent(s.maxUnavailable, replicaCount) > 1
    THEN GetValueFromIntOrPercent(s.maxUnavailable, replicaCount)
    ELSE 1

\* lines 518-525: maxUnavailable, 1 by default
MaxUnavailable(s, replicaCount) ==
    IF s.strategy = "RollingUpdate"
    THEN GetValueFromIntOrPercent(s.maxUnavailable, replicaCount)
    ELSE 1

\* a faulty IsOnDelete: the update sweep runs under every strategy
IsOnDeleteNever(s) == FALSE

\* line 512: the OnDelete strategy short-circuits the update sweep
IsOnDelete(s) == s.strategy = "OnDelete"

\* a faulty LessCurrent: status.CurrentReplicas keeps the updated pod
LessCurrentNot(c, q, pod) == q

\* lines 565-567: a pod of the current revision that is being updated leaves
\* status.CurrentReplicas
LessCurrent(c, q, pod) ==
    IF getPodRevision(pod) = c.cur.name
    THEN [q EXCEPT !.st.currentReplicas = @ - 1]
    ELSE q

\* lines 556-567: the outcome of the delete of an outdated pod
Deleted(c, q, pod) == IF q.ret THEN q ELSE LessCurrent(c, q, pod)

\* a faulty AfterInPlace: a failed in-place update never falls back to a delete
AfterInPlaceNoFallback(c, q, pod) == LessCurrent(c, q, pod)

\* a faulty AfterInPlace: the error of an in-place update is returned
AfterInPlaceReturnsErr(c, q, pod) ==
    IF q.callErr THEN ReturnErr(q) ELSE LessCurrent(c, q, pod)

\* lines 550-567: an in-place update that failed falls back to a delete unless
\* the pod update policy is InPlaceOnly
AfterInPlace(c, q, pod) ==
    IF q.callErr /\ ~isInPlaceOnly(c.set)
    THEN Deleted(c, DeleteStatefulPod(q, pod, "update"), pod)
    ELSE LessCurrent(c, q, pod)

\* a faulty UpdatePod: a pod whose last in-place update is pending is taken
\* out of status.CurrentReplicas
UpdatePodLowersPending(c, p, pod) ==
    IF shouldDoInPlaceUpdate(c.set, c.upd, getPodRevision(pod), c.revs)
    THEN IF checkInPlaceUpdateCompleted(pod) THEN LessCurrent(c, p, pod)
         ELSE AfterInPlace(c, inPlaceUpdatePod(p, pod, c.upd.name), pod)
    ELSE Deleted(c, DeleteStatefulPod(p, pod, "update"), pod)

\* a faulty UpdatePod: under InPlaceOnly a pod that cannot be updated in
\* place is left alone
UpdatePodSparesInPlaceOnly(c, p, pod) ==
    IF shouldDoInPlaceUpdate(c.set, c.upd, getPodRevision(pod), c.revs)
    THEN IF checkInPlaceUpdateCompleted(pod) THEN p
         ELSE AfterInPlace(c, inPlaceUpdatePod(p, pod, c.upd.name), pod)
    ELSE IF isInPlaceOnly(c.set) THEN p
    ELSE Deleted(c, DeleteStatefulPod(p, pod, "update"), pod)

\* lines 533-568: an outdated pod is updated in place or deleted
UpdatePod(c, p, pod) ==
    IF shouldDoInPlaceUpdate(c.set, c.upd, getPodRevision(pod), c.revs)
    THEN IF checkInPlaceUpdateCompleted(pod) THEN p
         ELSE AfterInPlace(c, inPlaceUpdatePod(p, pod, c.upd.name), pod)
    ELSE Deleted(c, DeleteStatefulPod(p, pod, "update"), pod)

\* the pass deleted or patched a pod between the pass states p and q
Disrupted(p, q) ==
    \E k \in (Len(p.ops) + 1) .. Len(q.ops) :
        q.ops[k].ok /\ q.ops[k].kind \in {"delete", "inplace"}

\* the sweep's step is recorded and the pod is counted
Seen(p, q, c, target) ==
    [q EXCEPT
        !.unavail = @ + (IF CountsUnavailable(c, q.mem[target],
                                              checkInPlaceUpdateCompleted(p.mem[target]))
                         THEN 1 ELSE 0),
        !.seen = Append(@, [ord |-> target,
                            counted |-> CountsUnavailable(c, q.mem[target],
                                            checkInPlaceUpdateCompleted(p.mem[target])),
                            disrupted |-> Disrupted(p, q)])]

\* lines 570-589: the pod is counted and the sweep waits when the window is full
CountUnavailable(c, p, q, target) ==
    IF q.ret THEN q
    ELSE IF WindowFull(c, q.unavail
               + (IF CountsUnavailable(c, q.mem[target],
                                       checkInPlaceUpdateCompleted(p.mem[target]))
                  THEN 1 ELSE 0))
    THEN ReturnNil(Seen(p, q, c, target))
    ELSE Seen(p, q, c, target)

\* lines 528-590: one iteration of the update sweep
UpdateStep(c, p, target) ==
    CountUnavailable(c, p,
        IF NeedsUpdate(c, p.mem[target]) THEN UpdatePod(c, p, p.mem[target]) ELSE p,
        target)

RECURSIVE UpdateSweep(_, _, _)
UpdateSweep(c, p, target) ==
    IF p.ret \/ target < c.updateMin THEN p
    ELSE UpdateSweep(c, UpdateStep(c, p, target), target - 1)

\* lines 322-330: an empty slot of the slice gets a fresh pod object
FillReplicas(s, currentRevision, updateRevision, placed) ==
    [o \in DOMAIN placed |->
        IF placed[o] = NoPod
        THEN newVersionedStatefulSetPod(s, currentRevision.name, updateRevision.name, o)
        ELSE placed[o]]

\* what the pass computes before its sweeps
PassContext(s, currentRevision, updateRevision, revs, replicas, condemned) ==
    [set |-> s, cur |-> currentRevision, upd |-> updateRevision, revs |-> revs,
     replicaCount |-> s.replicas,
     replicas |-> replicas,
     condemned |-> condemned,
     firstUnhealthyOrdinal |->
         FirstUnhealthy(s, condemned, 1,
             FirstUnhealthy(s, [k \in 1 .. s.replicas |-> replicas[k - 1]], 1, MaxInt32)),
     monotonic |-> ~allowsBurst(s),
     updateMin |-> UpdateMin(s),
     maxUnavailable |-> MaxUnavailable(s, s.replicas)]

\* the pass state before the sweeps
StartOfPass(c, st, store, fail) ==
    [store |-> store, mem |-> c.replicas, st |-> st,
     ops |-> <<>>, seen |-> <<>>, unavail |-> 0,
     ret |-> FALSE, err |-> FALSE, callErr |-> FALSE, fail |-> fail]

\* lines 511-592: after the scale-down sweep
AfterScaleDown(c, p) ==
    IF p.ret THEN p
    ELSE IF IsOnDelete(c.set) THEN ReturnNil(p)
    ELSE ReturnNil(UpdateSweep(c, p, c.replicaCount - 1))

\* a faulty IsBeingDeleted: the deletion timestamp is not looked at
IsBeingDeletedNever(s) == FALSE

\* line 366: set.DeletionTimestamp != nil
IsBeingDeleted(s) == s.deleting

\* lines 366-592: the sweeps
Sweeps(c, p) ==
    IF IsBeingDeleted(c.set) THEN ReturnNil(p)
    ELSE AfterScaleDown(c, ScaleDownSweep(c, ForwardSweep(c, p, 0), Len(c.condemned)))

\* lines 256-365 of updateStatefulSet with its context computed
StartSweeps(c, snapshot, store, fail) ==
    Sweeps(c, StartOfPass(c, CountPods(snapshot, Len(snapshot), c.cur.name, c.upd.name),
                          store, fail))

\* updateStatefulSet: the pass over the snapshot; returns the pass state
updateStatefulSet(s, currentRevision, updateRevision, snapshot, revs, store, fail) ==
    StartSweeps(
        PassContext(s, currentRevision, updateRevision, revs,
            FillReplicas(s, currentRevision, updateRevision,
                         PlaceReplicas(snapshot, Len(snapshot), s.replicas)),
            Condemned(snapshot, Len(snapshot), s.replicas)),
        snapshot, store, fail)

---------------------------------------------------------------------------
(* Status and history.                                                     *)

ZeroStatus ==
    [replicas |-> 0, readyReplicas |-> 0, currentReplicas |-> 0, updatedReplicas |-> 0,
     currentRevision |-> 0, updateRevision |-> 0]

\* the status updateStatefulSet returns: the counters and the revision names
StatusOf(p, currentRevision, updateRevision) ==
    [replicas |-> p.st.replicas, readyReplicas |-> p.st.readyReplicas,
     currentReplicas |-> p.st.currentReplicas, updatedReplicas |-> p.st.updatedReplicas,
     currentRevision |-> currentRevision.name, updateRevision |-> updateRevision.name]

\* completeRollingUpdate: a rolling update whose pods are all updated and ready
\* makes the update revision the current one
completeRollingUpdate(s, status) ==
    IF /\ s.strategy = "RollingUpdate"
       /\ status.updatedReplicas = status.replicas
       /\ status.readyReplicas = status.replicas
    THEN [status EXCEPT !.currentReplicas = status.updatedReplicas,
                        !.currentRevision = status.updateRevision]
    ELSE status

\* inconsistentStatus: some field of the status differs from the set's
inconsistentStatus(s, status) == status # s.status

\* a faulty liveness test: the pods of the snapshot are not looked at
NonLiveHistoryWithoutPods(snapshot, revs, current, update) ==
    SelectSeq(revs, LAMBDA r : r.name \notin {current.name, update.name})

\* lines 155-165: the listed revisions no pod of the snapshot and neither
\* current nor update names, in the order listed
NonLiveHistory(snapshot, revs, current, update) ==
    LET live == {current.name, update.name}
                \cup {getPodRevision(snapshot[k]) : k \in 1 .. Len(snapshot)}
    IN SelectSeq(revs, LAMBDA r : r.name \notin live)

\* a faulty truncateHistory: one revision too many is kept
truncateHistoryKeepsOneMore(s, snapshot, revs, current, update) ==
    SubSeq(NonLiveHistory(snapshot, revs, current, update), 1,
           Len(NonLiveHistory(snapshot, revs, current, update)) - s.historyLimit - 1)

\* truncateHistory: the revisions it deletes, oldest first
truncateHistory(s, snapshot, revs, current, update) ==
    LET history == NonLiveHistory(snapshot, revs, current, update)
        historyLen == Len(history)
        historyLimit == s.historyLimit
    IN IF historyLen <= historyLimit THEN <<>>
       ELSE SubSeq(history, 1, historyLen - historyLimit)

---------------------------------------------------------------------------
(* The reconcile pass.                                                     *)

RECURSIVE SnapshotFrom(_, _)
\* the pods of the store from ordinal o on, ascending
SnapshotFrom(store, o) ==
    IF o >= MaxReplicas THEN <<>>
    ELSE IF store[o] = NoPod THEN SnapshotFrom(store, o + 1)
    ELSE <<store[o]>> \o SnapshotFrom(store, o + 1)

\* the lister's answer: every pod of the store
Snapshot(store) == SnapshotFrom(store, 0)

\* the record of the pass before, kept by a pass that repeats it
NoPrior == [ops |-> <<>>, wrote |-> FALSE, revWrites |-> <<>>, err |-> FALSE]

NoPass ==
    [valid |-> FALSE, set |-> <<>>, snapshot |-> <<>>, cur |-> 0, upd |-> 0,
     ops |-> <<>>, seen |-> <<>>, status |-> ZeroStatus, err |-> FALSE,
     wrote |-> FALSE, revWrites |-> <<>>, listed |-> <<>>,
     again |-> FALSE, prior |-> NoPrior, after |-> "none"]

FailKinds == {"create", "delete", "update", "cond", "inplace", "status"}

\* The errors worth injecting into a pass: the call they hit is one the pass
\* makes when nothing fails (a pass is the same up to its first failing call).
Fails(quiet, writes) ==
    {NoFail}
    \cup {f \in [kind : FailKinds \ {"status"}, after : 0 .. MaxFailAfter] :
             f.after < Issued(quiet, f.kind)}
    \cup (IF writes THEN {[kind |-> "status", after |-> 0]} ELSE {})

\* a faulty StatusWriteDue: the status is written after every pass that
\* returned no error
StatusWriteDueAlways(p, s, status) == ~p.err

\* lines 94-102 and 635-638: UpdateStatefulSetStatus is called when the pass
\* returned no error and the completed status is inconsistent with the set's
StatusWriteDue(p, s, status) == ~p.err /\ inconsistentStatus(s, status)

\* lines 100-119: the status is completed and written when it differs, the
\* history is truncated, and the pass leaves its record
Commit(g, snapshot, revs, p, fail) ==
    LET status == completeRollingUpdate(set, StatusOf(p, g.cur, g.upd))
        write == StatusWriteDue(p, set, status)
        writeErr == write /\ fail.kind = "status"
        truncated == IF p.err \/ writeErr THEN <<>>
                     ELSE truncateHistory(set, snapshot, revs, g.cur, g.upd)
    IN /\ pods' = p.store
       /\ set' = IF write /\ ~writeErr THEN [set EXCEPT !.status = status] ELSE set
       /\ revisions' = g.stored \ {truncated[k] : k \in 1 .. Len(truncated)}
       /\ last' = [valid |-> TRUE, set |-> set, snapshot |-> snapshot,
                   cur |-> g.cur.name, upd |-> g.upd.name,
                   ops |-> p.ops, seen |-> p.seen,
                   status |-> StatusOf(p, g.cur, g.upd),
                   err |-> p.err \/ writeErr, wrote |-> write,
                   listed |-> revs, again |-> FALSE, prior |-> NoPrior,
                   after |-> last.after,
                   revWrites |-> g.writes \o
                       [k \in 1 .. Len(truncated) |->
                           [kind |-> "revDelete", name |-> truncated[k].name]]]

\* lines 84-99: the pass with the revisions g
WithRevisions(g, snapshot, revs, fail) ==
    Commit(g, snapshot, revs,
           updateStatefulSet(set, g.cur, g.upd, snapshot, revs, pods, fail), fail)

\* UpdateStatefulSet with the injected error `fail`
UpdateStatefulSet(fail) ==
    WithRevisions(getStatefulSetRevisions(set, ListRevisions), Snapshot(pods),
                  ListRevisions, fail)

\* the errors worth injecting, from the pass in which nothing fails
FailsOf(g, quiet) ==
    Fails(quiet, inconsistentStatus(set,
                     completeRollingUpdate(set, StatusOf(quiet, g.cur, g.upd))))

FailsFor(g) ==
    FailsOf(g, updateStatefulSet(set, g.cur, g.upd, Snapshot(pods), ListRevisions,
                                 pods, NoFail))

Reconcile ==
    \E fail \in FailsFor(getStatefulSetRevisions(set, ListRevisions)) :
        UpdateStatefulSet(fail)

\* the one pass of a specification that draws the store the pass reads
ReconcileOnce == ~last.valid /\ Reconcile

\* lines 100-119 for a pass that was handed the set s and the pod list
\* snapshot of the pass before: the status is compared with the status of
\* the set handed in and written on the stored set
CommitAgain(s, g, snapshot, revs, p) ==
    LET status == completeRollingUpdate(s, StatusOf(p, g.cur, g.upd))
        write == StatusWriteDue(p, s, status)
        truncated == IF p.err THEN <<>>
                     ELSE truncateHistory(s, snapshot, revs, g.cur, g.upd)
    IN /\ pods' = p.store
       /\ set' = IF write THEN [set EXCEPT !.status = status] ELSE set
       /\ revisions' = g.stored \ {truncated[k] : k \in 1 .. Len(truncated)}
       /\ last' = [valid |-> TRUE, set |-> s, snapshot |-> snapshot,
                   cur |-> g.cur.name, upd |-> g.upd.name,
                   ops |-> p.ops, seen |-> p.seen,
                   status |-> StatusOf(p, g.cur, g.upd),
                   err |-> p.err, wrote |-> write,
                   listed |-> revs, again |-> TRUE, after |-> "none",
                   prior |-> [ops |-> last.ops, wrote |-> last.wrote,
                              revWrites |-> last.revWrites, err |-> last.err],
                   revWrites |-> g.writes \o
                       [k \in 1 .. Len(truncated) |->
                           [kind |-> "revDelete", name |-> truncated[k].name]]]

\* the pass over the arguments s and snapshot with the revisions g
AgainWithRevisions(s, g, snapshot, revs) ==
    CommitAgain(s, g, snapshot, revs,
                updateStatefulSet(s, g.cur, g.upd, snapshot, revs, pods, NoFail))

\* UpdateStatefulSet(set, pods) called a second time with the arguments of
\* the pass before, on the stores as that pass left them
ReconcileAgain ==
    /\ last.valid
    /\ ~last.again
    /\ AgainWithRevisions(last.set, getStatefulSetRevisions(last.set, ListRevisions),
                          last.snapshot, ListRevisions)

---------------------------------------------------------------------------
(* The environment: the kubelet, the API server's garbage collection and   *)
(* the user.  Every such step forgets the last pass.                       *)

Touch(o, pod) ==
    /\ pods' = [pods EXCEPT ![o] = pod]
    /\ last' = NoPass
    /\ UNCHANGED <<set, revisions>>

\* setPodRunning: a pending pod starts running
PodRunning ==
    \E o \in Ordinals :
        /\ pods[o].phase = "Pending"
        /\ Touch(o, [pods[o] EXCEPT !.phase = "Running"])

\* setPodReady: a running pod becomes ready
PodReady ==
    \E o \in Ordinals :
        /\ pods[o].phase = "Running" /\ ~pods[o].ready
        /\ Touch(o, [pods[o] EXCEPT !.ready = TRUE])

\* pods[0].Status.Phase = v1.PodFailed: a pod fails
PodFailed ==
    \E o \in Ordinals :
        /\ pods[o].phase \in {"Pending", "Running"}
        /\ Touch(o, [pods[o] EXCEPT !.phase = "Failed", !.ready = FALSE])

\* addTerminatingPod, setPodTerminated: a pod gets its deletion timestamp
PodTerminating ==
    \E o \in Ordinals :
        /\ isCreated(pods[o]) /\ ~pods[o].term
        /\ Touch(o, [pods[o] EXCEPT !.term = TRUE])

\* podsIndexer.Delete: a terminating pod leaves the store
PodGone ==
    \E o \in Ordinals :
        /\ pods[o].term
        /\ Touch(o, NoPod)

\* the container of an in-place updated pod restarts with a new imageID
ImageChanged ==
    \E o \in Ordinals :
        /\ pods[o].ipp
        /\ Touch(o, [pods[o] EXCEPT !.ipp = FALSE])

\* *set.Spec.Replicas = n
Scale ==
    \E n \in 0 .. MaxReplicas :
        /\ n # set.replicas
        /\ set' = [set EXCEPT !.replicas = n]
        /\ last' = NoPass
        /\ UNCHANGED <<pods, revisions>>

\* set.Spec.Template.Spec.Containers[0].Image = ...: the template is edited
EditTemplate ==
    \E t \in Templates :
        /\ t # set.template
        /\ \A r \in revisions : r.num < MaxRevision
        /\ set' = [set EXCEPT !.template = t]
        /\ last' = NoPass
        /\ UNCHANGED <<pods, revisions>>

---------------------------------------------------------------------------
(* Specifications.                                                         *)

\* newStatefulSet(replicas) with the given strategy, before any pass
NewSet(replicas, policy, strategy, partition, maxUnavailable, podUpdatePolicy, gate, limit) ==
    [replicas |-> replicas, policy |-> policy, strategy |-> strategy,
     partition |-> partition, maxUnavailable |-> maxUnavailable,
     podUpdatePolicy |-> podUpdatePolicy, gate |-> gate, template |-> 1,
     historyLimit |-> limit, deleting |-> FALSE, status |-> ZeroStatus]

Nil == [type |-> "nil", val |-> 0]
FromInt(n) == [type |-> "int", val |-> n]

InitWith(s) ==
    /\ set = s
    /\ pods = [o \in Ordinals |-> NoPod]
    /\ revisions = {}
    /\ last = NoPass

\* the revision of template t with Revision number num
RevisionOf(t, num) == [name |-> RevisionName(t), tmpl |-> t, num |-> num]

\* a pod of the store as the kubelet and the API server may have left it
PodIn(o, phase, term, rev) ==
    [newStatefulSetPod(o, rev) EXCEPT !.phase = phase, !.ready = (phase = "Running"),
                                      !.term = term]

---------------------------------------------------------------------------
(* Ordered operation from construction: an OrderedReady set whose pods     *)
(* only advance (Pending -> Running -> Ready) and that the user scales.    *)

InitOrdered ==
    \E n \in 1 .. MaxReplicas :
        InitWith(NewSet(n, "OrderedReady", "RollingUpdate", 0, Nil, "Recreate", FALSE, 1))

NextOrdered ==
    \/ Reconcile
    \/ PodRunning
    \/ PodReady
    \/ Scale

SpecOrdered == InitOrdered /\ [][NextOrdered]_vars

---------------------------------------------------------------------------
(* One pass over any store: the set has been reconciled before (its        *)
(* revision exists, its status names it), its template never changed, and  *)
(* every ordinal holds no pod or a pod that is pending, running and ready  *)
(* or failed, terminating or not.                                          *)

ScaleShapes(o) ==
    {NoPod} \cup {PodIn(o, phase, term, RevisionName(1)) :
                     phase \in {"Pending", "Running", "Failed"}, term \in BOOLEAN}

InitScalePass ==
    /\ \E n \in 0 .. MaxReplicas, policy \in {"OrderedReady", "Parallel"} :
          set = [NewSet(n, policy, "RollingUpdate", 0, Nil, "Recreate", FALSE, 1)
                    EXCEPT !.status.currentRevision = RevisionName(1),
                           !.status.updateRevision = RevisionName(1)]
    /\ pods \in [Ordinals -> UNION {ScaleShapes(o) : o \in Ordinals}]
    /\ \A o \in Ordinals : pods[o] \in ScaleShapes(o)
    /\ revisions = {RevisionOf(1, 1)}
    /\ last = NoPass

NextScalePass == ReconcileOnce

SpecScalePass == InitScalePass /\ [][NextScalePass]_vars

---------------------------------------------------------------------------
(* Rolling updates from a fully scaled, healthy set: every pod runs the    *)
(* first template and is ready, the status is settled.  The user edits the *)
(* template; pods advance; in-place updated containers restart.            *)

\* a healthy pod of the set s at revision rev
HealthyPod(s, o, rev) ==
    [PodIn(o, "Running", FALSE, rev) EXCEPT !.cond = IF s.gate THEN "True" ELSE "None"]

\* the status a pass writes for n healthy pods of one revision
SettledStatus(n, rev) ==
    [replicas |-> n, readyReplicas |-> n, currentReplicas |-> n, updatedReplicas |-> n,
     currentRevision |-> rev, updateRevision |-> rev]

\* a set ready for a rolling update
RolloutSet(policy, partition, maxUnavailable, podUpdatePolicy) ==
    [NewSet(MaxReplicas, policy, "RollingUpdate", partition, maxUnavailable,
            podUpdatePolicy, podUpdatePolicy # "Recreate", 1)
        EXCEPT !.status = SettledStatus(MaxReplicas, RevisionName(1))]

RolloutSets ==
    {RolloutSet(policy, partition, maxUnavailable, "Recreate") :
        policy \in {"OrderedReady", "Parallel"},
        partition \in {0, 1},
        maxUnavailable \in {Nil, FromInt(2)}}
    \cup {RolloutSet("OrderedReady", 0, maxUnavailable, "InPlaceIfPossible") :
        maxUnavailable \in {Nil, FromInt(2)}}

InitRollout ==
    /\ set \in RolloutSets
    /\ pods = [o \in Ordinals |-> HealthyPod(set, o, RevisionName(1))]
    /\ revisions = {RevisionOf(1, 1)}
    /\ last = NoPass

NextRollout ==
    \/ Reconcile
    \/ PodRunning
    \/ PodReady
    \/ ImageChanged
    \/ EditTemplate

SpecRollout == InitRollout /\ [][NextRollout]_vars

---------------------------------------------------------------------------
(* One pass of an update: the template was edited from 1 to 2 and the new  *)
(* revision exists; every ordinal holds no pod or a pod of either revision *)
(* that is healthy or pending, a healthy terminating pod, or (when the set *)
(* declares the readiness gate) a pod in or just after an in-place update. *)

UpdateShapes(s, o) ==
    {NoPod, [HealthyPod(s, o, RevisionName(1)) EXCEPT !.term = TRUE]}
    \cup {HealthyPod(s, o, RevisionName(t)) : t \in {1, 2}}
    \cup {PodIn(o, "Pending", FALSE, RevisionName(t)) : t \in {1, 2}}
    \cup (IF s.gate
          THEN {[HealthyPod(s, o, RevisionName(2)) EXCEPT !.cond = "False", !.ipp = ipp] :
                   ipp \in BOOLEAN}
          ELSE {})

\* the set after the edit, its status still naming the first revision
UpdatingSet(policy, strategy, partition, maxUnavailable, podUpdatePolicy) ==
    [NewSet(MaxReplicas, policy, strategy, partition, maxUnavailable,
            podUpdatePolicy, podUpdatePolicy # "Recreate", 1)
        EXCEPT !.template = 2,
               !.status.currentRevision = RevisionName(1),
               !.status.updateRevision = RevisionName(2)]

UpdatingSets ==
    {UpdatingSet(policy, "RollingUpdate", partition, maxUnavailable, "Recreate") :
        policy \in {"OrderedReady", "Parallel"},
        partition \in 0 .. (MaxReplicas - 1),
        maxUnavailable \in {Nil, FromInt(2)}}
    \cup {UpdatingSet("Parallel", "RollingUpdate", partition, maxUnavailable,
                      podUpdatePolicy) :
        partition \in 0 .. (MaxReplicas - 1),
        maxUnavailable \in {Nil, FromInt(2)},
        podUpdatePolicy \in {"InPlaceIfPossible", "InPlaceOnly"}}
    \cup {UpdatingSet(policy, "OnDelete", 0, Nil, "Recreate") :
        policy \in {"OrderedReady", "Parallel"}}

InitUpdatePass ==
    /\ set \in UpdatingSets
    /\ pods \in [Ordinals -> UNION {UpdateShapes(set, o) : o \in Ordinals}]
    /\ \A o \in Ordinals : pods[o] \in UpdateShapes(set, o)
    /\ revisions = {RevisionOf(1, 1), RevisionOf(2, 2)}
    /\ last = NoPass

NextUpdatePass == ReconcileOnce

SpecUpdatePass == InitUpdatePass /\ [][NextUpdatePass]_vars

---------------------------------------------------------------------------
(* One pass over any history: the revisions of all templates exist in any  *)
(* order of Revision numbers, the set's template and the current revision  *)
(* its status names are any of them, and every ordinal holds no pod or a   *)
(* healthy pod of any revision.                                            *)

\* the orders in which the templates' revisions can have been written
RevisionOrders ==
    {f \in [Templates -> 1 .. MaxTemplate] :
        \A a, b \in Templates : a # b => f[a] # f[b]}

HistorySets ==
    {[NewSet(MaxReplicas, "Parallel", "RollingUpdate", 0, Nil, "Recreate", FALSE, limit)
         EXCEPT !.template = t,
                !.status.currentRevision = RevisionName(current),
                !.status.updateRevision = RevisionName(current)] :
        t \in Templates, current \in Templates, limit \in {0, 1}}

InitHistoryPass ==
    /\ set \in HistorySets
    /\ pods \in [Ordinals -> UNION {{NoPod} \cup {HealthyPod(set, o, RevisionName(t)) :
                                                    t \in Templates} : o \in Ordinals}]
    /\ \A o \in Ordinals : pods[o] # NoPod => getOrdinal(pods[o]) = o
    /\ \E f \in RevisionOrders : revisions = {RevisionOf(t, f[t]) : t \in Templates}
    /\ last = NoPass

NextHistoryPass == ReconcileOnce

SpecHistoryPass == InitHistoryPass /\ [][NextHistoryPass]_vars

---------------------------------------------------------------------------
(* Two passes over the same arguments: the history holds the revisions of  *)
(* any of the templates, numbered in any order; the set's template and     *)
(* the current revision its status names are any of them; every ordinal    *)
(* holds no pod or a healthy pod of the current revision or of the         *)
(* template's revision; the status is the one a pass computes for this     *)
(* store.  UpdateStatefulSet runs, and runs again with the same set and    *)
(* pod list.                                                               *)

\* the histories of the templates T, numbered 1 .. Cardinality(T) in any order
HistoriesOf(T) ==
    {{RevisionOf(t, f[t]) : t \in T} :
        f \in {h \in [T -> 1 .. Cardinality(T)] :
                  \A a, b \in T : a # b => h[a] # h[b]}}

\* the status computed for the pods of the store, naming the revisions cur and upd
StatusFor(store, cur, upd) ==
    CountPods(Snapshot(store), Len(Snapshot(store)), cur, upd)
        @@ [currentRevision |-> cur, updateRevision |-> upd]

InitTwice ==
    /\ \E T \in SUBSET Templates : revisions \in HistoriesOf(T)
    /\ \E t \in Templates, current \in Templates :
          /\ pods \in [Ordinals -> {NoPod} \cup UNION {{HealthyPod([gate |-> FALSE], o, RevisionName(r)) :
                                                          r \in {t, current}} : o \in Ordinals}]
          /\ \A o \in Ordinals : pods[o] # NoPod => getOrdinal(pods[o]) = o
          /\ \E limit \in {0, 1}, strategy \in {"RollingUpdate", "OnDelete"} :
                set = [NewSet(MaxReplicas, "Parallel", strategy, 0, Nil, "Recreate",
                              FALSE, limit)
                          EXCEPT !.template = t,
                                 !.status = StatusFor(pods, RevisionName(current),
                                                      RevisionName(t))]
    /\ last = NoPass

NextTwice ==
    \/ ReconcileOnce
    \/ ReconcileAgain

SpecTwice == InitTwice /\ [][NextTwice]_vars

---------------------------------------------------------------------------
(* One pass over any store whose pods may have lost their identity: as in  *)
(* the one-pass specification above the set has been reconciled before and *)
(* its template never changed; every ordinal holds no pod or a pod that is *)
(* pending or running and ready, terminating or not, and whose name,       *)
(* labels or volume claims may have been changed behind the controller.    *)

\* pods[0].Name = "goo-0": a pod that may not match the set any more
IdentityShapes(o) ==
    {NoPod} \cup {[PodIn(o, phase, term, RevisionName(1)) EXCEPT !.ok = ok] :
                     phase \in {"Pending", "Running"}, term \in BOOLEAN, ok \in BOOLEAN}

InitIdentityPass ==
    /\ \E n \in 0 .. MaxReplicas, policy \in {"OrderedReady", "Parallel"} :
          set = [NewSet(n, policy, "RollingUpdate", 0, Nil, "Recreate", FALSE, 1)
                    EXCEPT !.status.currentRevision = RevisionName(1),
                           !.status.updateRevision = RevisionName(1)]
    /\ pods \in [Ordinals -> UNION {IdentityShapes(o) : o \in Ordinals}]
    /\ \A o \in Ordinals : pods[o] \in IdentityShapes(o)
    /\ revisions = {RevisionOf(1, 1)}
    /\ last = NoPass

NextIdentityPass == ReconcileOnce

SpecIdentityPass == InitIdentityPass /\ [][NextIdentityPass]_vars

---------------------------------------------------------------------------
(* In-place update with a partition: three healthy pods of the first       *)
(* template, InPlaceIfPossible with the InPlaceUpdateReady readiness gate, *)
(* partition 1, the default maxUnavailable.  The user changes the image;   *)
(* patched containers restart; a pod deleted after a failed patch comes    *)
(* back through Pending and Running.                                       *)

\* newStatefulSet(3): the scenario's replica count
InPlaceReplicas == 3

InitInPlace ==
    /\ \E policy \in {"OrderedReady", "Parallel"} :
          set = [RolloutSet(policy, 1, Nil, "InPlaceIfPossible")
                    EXCEPT !.replicas = InPlaceReplicas,
                           !.status = SettledStatus(InPlaceReplicas, RevisionName(1))]
    /\ pods = [o \in Ordinals |->
                  IF o < InPlaceReplicas
                  THEN HealthyPod(set, o, RevisionName(1)) ELSE NoPod]
    /\ revisions = {RevisionOf(1, 1)}
    /\ last = NoPass

\* set.Spec.Template.Spec.Containers[0].Image = "foo": an image-only change
EditImage ==
    /\ set.template = 1
    /\ set' = [set EXCEPT !.template = 2]
    /\ last' = NoPass
    /\ UNCHANGED <<pods, revisions>>

NextInPlace ==
    \/ Reconcile
    \/ PodRunning
    \/ PodReady
    \/ ImageChanged
    \/ EditImage

SpecInPlace == InitInPlace /\ [][NextInPlace]_vars

---------------------------------------------------------------------------
(* After a rollback: a pass over any history has bumped a prior revision;  *)
(* the user then sets the template back to the shape of the revision that  *)
(* was newest before the rollback, or leaves it alone, and the set is      *)
(* reconciled again.                                                       *)

\* the revisions the last pass listed that are payload-equal to the set's template
LastEqual == FindEqualRevisions(last.listed, newRevision(last.set, 0))

\* the last pass was a rollback: a listed revision is payload-equal to the
\* template and the newest listed revision is not
WasRollback ==
    /\ last.valid
    /\ ~last.again
    /\ Len(LastEqual) > 0
    /\ ~EqualRevision(last.listed[Len(last.listed)], LastEqual[Len(LastEqual)])

\* ApplyRevision(set, revision): the template goes back to the shape of the
\* revision that was newest when the rollback pass listed the history
EditBack ==
    /\ WasRollback
    /\ last.after = "none"
    /\ set' = [set EXCEPT !.template = last.listed[Len(last.listed)].tmpl]
    /\ last' = [NoPass EXCEPT !.after = "back"]
    /\ UNCHANGED <<pods, revisions>>

\* the set is reconciled again with its template as the rollback left it
Requeue ==
    /\ WasRollback
    /\ last.after = "none"
    /\ last' = [NoPass EXCEPT !.after = "same"]
    /\ UNCHANGED <<set, pods, revisions>>

NextRollback ==
    \/ ReconcileOnce
    \/ EditBack
    \/ Requeue

\* a fully scaled set with healthy pods of one revision over any history
InitRollback ==
    /\ set \in HistorySets
    /\ \E p \in Templates : pods = [o \in Ordinals |-> HealthyPod(set, o, RevisionName(p))]
    /\ \E f \in RevisionOrders : revisions = {RevisionOf(t, f[t]) : t \in Templates}
    /\ last = NoPass

SpecRollback == InitRollback /\ [][NextRollback]_vars

---------------------------------------------------------------------------
(* Properties.  A pass is judged from its record `last`: the set and the   *)
(* snapshot it read and the calls it issued.                               *)

\* the calls of that kind the last pass issued, failed ones included
CallsOf(kind) == SelectSeq(last.ops, LAMBDA o : o.kind = kind)

\* the pods of the last pass's snapshot at ordinal o
SnapshotAt(o) == SelectSeq(last.snapshot, LAMBDA pod : getOrdinal(pod) = o)

\* the last pass's snapshot held a running and ready, non-terminating pod at o
WasReadyAt(o) ==
    /\ Len(SnapshotAt(o)) > 0
    /\ \A k \in 1 .. Len(SnapshotAt(o)) :
          isRunningAndReady(SnapshotAt(o)[k]) /\ ~isTerminating(SnapshotAt(o)[k])

\* C1 (P1, monotonic ordering): for an OrderedReady set whose pods only
\* advance Pending -> Running -> Ready between passes, in every state (hence
\* after every pass) and with the existing pods sorted by ascending ordinal,
\* a running and ready pod that is not the first has a running and ready
\* predecessor.
C1_MonotonicOrdering ==
    set.policy = "OrderedReady" =>
        \A i \in 2 .. Len(Snapshot(pods)) :
            isRunningAndReady(Snapshot(pods)[i]) => isRunningAndReady(Snapshot(pods)[i - 1])

\* a pass has just run and the last of at least two pods is running and ready
C1_Witness ==
    /\ last.valid
    /\ set.policy = "OrderedReady"
    /\ Len(Snapshot(pods)) >= 2
    /\ isRunningAndReady(Snapshot(pods)[Len(Snapshot(pods))])

\* C2 (ordered scale-up): an OrderedReady pass issues at most one
\* CreateStatefulPod, and when it creates the pod at ordinal o the snapshot
\* holds, at every ordinal below o, a pod that is running and ready and not
\* terminating; so after the pass the created pod's predecessor is ready.
C2_OrderedScaleUp ==
    (last.valid /\ last.set.policy = "OrderedReady") =>
        /\ Len(CallsOf("create")) <= 1
        /\ \A k \in 1 .. Len(CallsOf("create")) :
              /\ \A o \in 0 .. (CallsOf("create")[k].ord - 1) : WasReadyAt(o)
              /\ (CallsOf("create")[k].ok /\ CallsOf("create")[k].ord > 0) =>
                    isRunningAndReady(pods[CallsOf("create")[k].ord - 1])

\* an OrderedReady pass created a pod above ordinal 0
C2_Witness ==
    /\ last.valid
    /\ last.set.policy = "OrderedReady"
    /\ \E k \in 1 .. Len(last.ops) :
          last.ops[k].kind = "create" /\ last.ops[k].ok /\ last.ops[k].ord > 0

\* C3 (burst scale-up): a Parallel pass in which no call fails issues
\* CreateStatefulPod for every ordinal below spec.replicas that has no pod in
\* the snapshot, whatever the state of the other pods.
C3_BurstScaleUp ==
    (/\ last.valid
     /\ last.set.policy = "Parallel"
     /\ ~last.err
     /\ \A k \in 1 .. Len(last.ops) : last.ops[k].ok) =>
        \A o \in 0 .. (last.set.replicas - 1) :
            Len(SnapshotAt(o)) = 0 =>
                \E k \in 1 .. Len(last.ops) :
                    /\ last.ops[k].kind = "create"
                    /\ last.ops[k].ord = o
                    /\ pods[o] # NoPod

\* a Parallel pass created two pods while a pod of the snapshot was not ready
C3_Witness ==
    /\ last.valid
    /\ last.set.policy = "Parallel"
    /\ ~last.err
    /\ \A k \in 1 .. Len(last.ops) : last.ops[k].ok
    /\ Len(CallsOf("create")) >= 2
    /\ \E j \in 1 .. Len(last.snapshot) :
          /\ getOrdinal(last.snapshot[j]) < last.set.replicas
          /\ ~isRunningAndReady(last.snapshot[j])
          /\ ~isFailed(last.snapshot[j])

\* the deletes of condemned pods (ordinal >= spec.replicas) the last pass issued
CondemnedDeletes ==
    SelectSeq(last.ops, LAMBDA o : o.kind = "delete" /\ o.ord >= last.set.replicas)

\* C4 (ordered scale-down): an OrderedReady pass deletes at most one condemned
\* pod, and no pod of larger ordinal is in the snapshot (terminating or not)
\* when it does: the deleted pod is the largest condemned pod.
C4_OrderedScaleDown ==
    (last.valid /\ last.set.policy = "OrderedReady") =>
        /\ Len(CondemnedDeletes) <= 1
        /\ \A k \in 1 .. Len(CondemnedDeletes) :
              \A j \in 1 .. Len(last.snapshot) :
                  getOrdinal(last.snapshot[j]) <= CondemnedDeletes[k].ord

\* an OrderedReady pass deleted the largest of at least two condemned pods
C4_Witness ==
    /\ last.valid
    /\ last.set.policy = "OrderedReady"
    /\ \E k \in 1 .. Len(CondemnedDeletes) : CondemnedDeletes[k].ok
    /\ \E j \in 1 .. Len(last.snapshot) :
          /\ getOrdinal(last.snapshot[j]) >= last.set.replicas
          /\ \E k \in 1 .. Len(CondemnedDeletes) :
                getOrdinal(last.snapshot[j]) < CondemnedDeletes[k].ord

\* the calls the last pass's update sweep issued
UpdateSweepCalls == SelectSeq(last.ops, LAMBDA o : o.sweep = "update")

\* the pods the last pass disrupted: a delete or an in-place patch that succeeded
Disruptions ==
    SelectSeq(UpdateSweepCalls, LAMBDA o : o.ok /\ o.kind \in {"delete", "inplace"})

\* C5 (partition): under RollingUpdate with partition k the update sweep
\* issues no call on a pod of ordinal below k, whatever maxUnavailable and
\* the pod update policy are, and a healthy pod below k and below
\* spec.replicas that carries the current revision is the same pod after
\* the pass.
C5_Partition ==
    (last.valid /\ last.set.strategy = "RollingUpdate") =>
        /\ \A k \in 1 .. Len(UpdateSweepCalls) :
              UpdateSweepCalls[k].ord >= last.set.partition
        /\ \A j \in 1 .. Len(last.snapshot) :
              (/\ getOrdinal(last.snapshot[j]) < last.set.partition
               /\ getOrdinal(last.snapshot[j]) < last.set.replicas
               /\ isHealthy(last.set, last.snapshot[j])
               /\ getPodRevision(last.snapshot[j]) = last.cur) =>
                  pods[getOrdinal(last.snapshot[j])] = last.snapshot[j]

\* a pass with a partition disrupted a pod while a healthy pod of the current
\* revision sat below the partition
C5_Witness ==
    /\ last.valid
    /\ last.set.strategy = "RollingUpdate"
    /\ last.set.partition > 0
    /\ last.cur # last.upd
    /\ Len(Disruptions) > 0
    /\ \E j \in 1 .. Len(last.snapshot) :
          /\ getOrdinal(last.snapshot[j]) < last.set.partition
          /\ isHealthy(last.set, last.snapshot[j])
          /\ getPodRevision(last.snapshot[j]) = last.cur

\* the ordinals of the update range
UpdateRange(s) == {o \in Ordinals : Partition(s) <= o /\ o < s.replicas}

\* the ordinals of the update range without a healthy pod, or with a pod in
\* an in-place update
Unavailable(s, store) ==
    {o \in UpdateRange(s) :
        ~isHealthy(s, store[o]) \/ checkInPlaceUpdateCompleted(store[o])}

\* the ordinals of the update range whose pod does not carry the revision
Outdated(s, store, revision) ==
    {o \in UpdateRange(s) : getPodRevision(store[o]) # revision}

\* the template has been edited at most once
OneUpdate == \A r \in revisions : r.num <= 2

\* the snapshot of the last pass, by ordinal
LastStore ==
    [o \in Ordinals |-> IF Len(SnapshotAt(o)) = 0 THEN NoPod ELSE SnapshotAt(o)[1]]

CountedBefore(k) == Cardinality({j \in 1 .. (k - 1) : last.seen[j].counted})

\* C7 (update window): with maxUnavailable m >= 1 the update sweep visits the
\* ordinals replicas-1, replicas-2, ... down to the partition at most, it
\* disrupts the pod of a step only if fewer than m pods were counted
\* unavailable in the steps before, it takes no step after m pods were
\* counted, and so one pass disrupts at most m pods.
C7_UpdateWindow ==
    (/\ last.valid
     /\ last.set.strategy = "RollingUpdate"
     /\ MaxUnavailable(last.set, last.set.replicas) >= 1) =>
        /\ \A k \in 1 .. Len(last.seen) :
              /\ last.seen[k].ord = last.set.replicas - k
              /\ last.seen[k].ord >= last.set.partition
              /\ CountedBefore(k) < MaxUnavailable(last.set, last.set.replicas)
        /\ \A k \in 1 .. Len(Disruptions) :
              \E j \in 1 .. Len(last.seen) :
                  last.seen[j].ord = Disruptions[k].ord /\ last.seen[j].disrupted
        /\ Len(Disruptions) <= MaxUnavailable(last.set, last.set.replicas)

\* a pass with maxUnavailable 2 disrupted two pods and stopped above an
\* outdated pod of the update range
C7_Witness ==
    /\ last.valid
    /\ last.set.strategy = "RollingUpdate"
    /\ MaxUnavailable(last.set, last.set.replicas) = 2
    /\ Len(Disruptions) = 2
    /\ Len(last.seen) = 2
    /\ last.set.partition = 0
    /\ getPodRevision(pods[0]) # last.upd
    /\ pods[0] # NoPod

\* the persisted status places the revisions: with the pods sorted by
\* ordinal, the first status.currentReplicas carry status.currentRevision and
\* the last status.updatedReplicas carry status.updateRevision
RevisionLayout ==
    \A k \in 1 .. Len(Snapshot(pods)) :
        /\ k <= set.status.currentReplicas =>
              getPodRevision(Snapshot(pods)[k]) = set.status.currentRevision
        /\ k > Len(Snapshot(pods)) - set.status.updatedReplicas =>
              getPodRevision(Snapshot(pods)[k]) = set.status.updateRevision

C9_OnDelete ==
    (last.valid /\ last.set.strategy = "OnDelete") =>
        /\ Len(UpdateSweepCalls) = 0
        /\ Len(last.seen) = 0
        /\ \A j \in 1 .. Len(last.snapshot) :
              \/ isFailed(last.snapshot[j])
              \/ getOrdinal(last.snapshot[j]) >= last.set.replicas
              \/ /\ pods[getOrdinal(last.snapshot[j])] # NoPod
                 /\ getPodRevision(pods[getOrdinal(last.snapshot[j])])
                        = getPodRevision(last.snapshot[j])
        /\ \A k \in 1 .. Len(CallsOf("create")) :
              CallsOf("create")[k].ok =>
                  getPodRevision(pods[CallsOf("create")[k].ord]) = last.upd

\* an OnDelete pass created a pod next to a healthy pod of the old revision
C9_Witness ==
    /\ last.valid
    /\ last.set.strategy = "OnDelete"
    /\ last.cur # last.upd
    /\ \E k \in 1 .. Len(CallsOf("create")) : CallsOf("create")[k].ok
    /\ \E j \in 1 .. Len(last.snapshot) :
          /\ isHealthy(last.set, last.snapshot[j])
          /\ getPodRevision(last.snapshot[j]) # last.upd
          /\ pods[getOrdinal(last.snapshot[j])] = last.snapshot[j]

\* the persisted revisions named neither by a pod of the store nor by cur or upd
Unreferenced(store, cur, upd) ==
    {r \in revisions :
        /\ r.name \notin {cur, upd}
        /\ \A o \in Ordinals : store[o] = NoPod \/ getPodRevision(store[o]) # r.name}

LastLive ==
    {last.cur, last.upd}
    \cup {getPodRevision(last.snapshot[k]) : k \in 1 .. Len(last.snapshot)}

\* the revisions the last pass listed that are not live, in the order listed
LastNonLive == SelectSeq(last.listed, LAMBDA r : r.name \notin LastLive)

\* the revisions the last pass deleted
RevDeletes == SelectSeq(last.revWrites, LAMBDA w : w.kind = "revDelete")

\* the last pass deleted the revision of that name
WasDeleted(name) == \E k \in 1 .. Len(RevDeletes) : RevDeletes[k].name = name

\* C11 (history truncation safety): a pass deletes no revision that is the
\* current or the update revision or is named by a pod of the snapshot; a
\* pass that reaches truncateHistory deletes exactly
\* max(0, nonLive - revisionHistoryLimit) of the other listed revisions, each
\* once, those of the lowest Revision numbers, and they leave the store
\* while every other revision stays.
C11_TruncationSafety ==
    last.valid =>
        /\ \A k \in 1 .. Len(RevDeletes) : RevDeletes[k].name \notin LastLive
        /\ ~last.err =>
              /\ Len(RevDeletes) =
                    IF Len(LastNonLive) > last.set.historyLimit
                    THEN Len(LastNonLive) - last.set.historyLimit ELSE 0
              /\ \A k \in 1 .. Len(RevDeletes) :
                    RevDeletes[k].name = LastNonLive[k].name
              /\ \A i, j \in 1 .. Len(LastNonLive) :
                    (WasDeleted(LastNonLive[i].name) /\ ~WasDeleted(LastNonLive[j].name))
                        => LastNonLive[i].num < LastNonLive[j].num
              /\ \A k \in 1 .. Len(last.listed) :
                    WasDeleted(last.listed[k].name)
                        <=> ~\E r \in revisions : r.name = last.listed[k].name

\* a pass deleted the older of two revisions that were not live and kept the
\* newer one
C11_Witness ==
    /\ last.valid
    /\ ~last.err
    /\ last.set.historyLimit = 1
    /\ Len(LastNonLive) = 2
    /\ Len(RevDeletes) = 1
    /\ \E r \in revisions : r.name = LastNonLive[2].name
    /\ Len(last.snapshot) > 0

\* C12 (P6, idempotence): when UpdateStatefulSet has returned without error
\* and is called again with the same set and the same pod list, the second
\* pass creates, updates and deletes no revision; and when the first pass
\* issued no Pod Controller call and wrote no status, neither does the
\* second.
C12_Idempotence ==
    (last.valid /\ last.again /\ ~last.prior.err) =>
        /\ Len(last.revWrites) = 0
        /\ (Len(last.prior.ops) = 0 /\ ~last.prior.wrote) =>
              (Len(last.ops) = 0 /\ ~last.wrote)

\* a second pass after a pass that wrote a revision and nothing else
C12_Witness ==
    /\ last.valid
    /\ last.again
    /\ ~last.prior.err
    /\ Len(last.prior.revWrites) > 0
    /\ Len(last.prior.ops) = 0
    /\ ~last.prior.wrote
    /\ Len(last.snapshot) > 0

\* C12 as stated: the second pass over the same set and the same pod list
\* issues no Pod Controller call, writes no revision and writes no status.
C12_AsStated ==
    (last.valid /\ last.again /\ ~last.prior.err) =>
        /\ Len(last.ops) = 0
        /\ Len(last.revWrites) = 0
        /\ ~last.wrote

\* the writes of that kind the last pass made on the revision history
RevWritesOf(kind) == SelectSeq(last.revWrites, LAMBDA w : w.kind = kind)

\* C13 (P7/S6, rollback): when the template is payload-equal to a listed
\* revision r and not to the newest one, the pass creates no revision, makes
\* one UpdateControllerRevision, on r, the update revision is r, r is stored
\* with the Revision number max(existing) + 1 and no longer with its old one,
\* and the number of persisted revisions is unchanged by it (the pass's own
\* truncation apart).
C13_Rollback ==
    WasRollback =>
        /\ Len(RevWritesOf("revCreate")) = 0
        /\ Len(RevWritesOf("revUpdate")) = 1
        /\ RevWritesOf("revUpdate")[1].name = LastEqual[Len(LastEqual)].name
        /\ last.upd = LastEqual[Len(LastEqual)].name
        /\ [LastEqual[Len(LastEqual)]
               EXCEPT !.num = last.listed[Len(last.listed)].num + 1] \in revisions
        /\ LastEqual[Len(LastEqual)] \notin revisions
        /\ \A r \in revisions : r.num <= last.listed[Len(last.listed)].num + 1
        /\ Cardinality(revisions) + Len(RevDeletes) = Len(last.listed)

\* a pass rolled back to the oldest of MaxTemplate revisions
C13_Witness ==
    /\ WasRollback
    /\ Len(last.listed) = MaxTemplate
    /\ LastEqual[1] = last.listed[1]
    /\ Len(RevWritesOf("revUpdate")) = 1

\* C14 (P7, second half): after a rollback has bumped a revision r, the next
\* pass writes no revision while the template keeps r's shape; when the
\* template is set back to the shape of the revision that was newest before
\* the rollback, the next pass is a rollback again: it bumps that revision to
\* max(existing) + 1 if it is still stored, and creates it anew if the
\* rollback pass truncated it.
C14_AfterRollback ==
    /\ (last.valid /\ last.after = "same") =>
          /\ Len(RevWritesOf("revUpdate")) = 0
          /\ Len(RevWritesOf("revCreate")) = 0
    /\ (last.valid /\ last.after = "back") =>
          /\ Len(RevWritesOf("revUpdate")) = (IF Len(LastEqual) > 0 THEN 1 ELSE 0)
          /\ Len(RevWritesOf("revCreate")) = (IF Len(LastEqual) > 0 THEN 0 ELSE 1)
          /\ \E r \in revisions :
                /\ r.name = last.upd
                /\ r.tmpl = last.set.template
                /\ r.num = last.listed[Len(last.listed)].num + 1

\* the template went back to the shape of a revision still stored and the
\* next pass has run
C14_Witness ==
    /\ last.valid
    /\ last.after = "back"
    /\ Len(LastEqual) > 0
    /\ Len(last.listed) = MaxTemplate

\* C14 as stated: after a rollback, the pass that follows a template mutation
\* back to the shape of the revision that was newest before the rollback
\* makes no Revision bump.
C14_AsStated ==
    (last.valid /\ last.after = "back") => Len(RevWritesOf("revUpdate")) = 0

\* the template of the last pass was payload-equal to the newest listed revision
WasUnchanged ==
    /\ last.valid
    /\ ~last.again
    /\ Len(LastEqual) > 0
    /\ EqualRevision(last.listed[Len(last.listed)], LastEqual[Len(LastEqual)])

\* the revisions the last pass listed, as a set
LastListed == {last.listed[k] : k \in 1 .. Len(last.listed)}

\* C15 (unchanged template): when the template is payload-equal to the
\* revision with the highest Revision number, the pass makes no Create and no
\* Update on the revision store and its update revision is that newest
\* revision, which stays stored and newest (so the next pass finds the same);
\* the revision list changes only by the revisions truncateHistory deletes,
\* none of them live.
C15_UnchangedTemplate ==
    WasUnchanged =>
        /\ Len(RevWritesOf("revCreate")) = 0
        /\ Len(RevWritesOf("revUpdate")) = 0
        /\ last.upd = last.listed[Len(last.listed)].name
        /\ last.listed[Len(last.listed)] \in revisions
        /\ \A r \in revisions : r.num <= last.listed[Len(last.listed)].num
        /\ revisions = {r \in LastListed : ~WasDeleted(r.name)}
        /\ \A r \in LastListed : WasDeleted(r.name) => r.name \notin LastLive

\* a pass with an unchanged template over MaxTemplate revisions that issued
\* pod calls and left the history as it was
C15_Witness ==
    /\ WasUnchanged
    /\ Len(last.listed) = MaxTemplate
    /\ Len(last.ops) > 0
    /\ revisions = LastListed

\* C15 as stated: a reconcile with an unchanged template leaves the revision
\* list unchanged.
C15_AsStated == WasUnchanged => revisions = LastListed

\* the template of the last pass was payload-equal to no listed revision
WasNew ==
    /\ last.valid
    /\ ~last.again
    /\ Len(LastEqual) = 0

\* C16 (new template): when no listed revision is payload-equal to the
\* template, the pass makes exactly one CreateControllerRevision and no
\* Update, the created revision is stored with the template and the Revision
\* number highest + 1 (1 for an empty history) and is the update revision,
\* the store grows by it (the pass's own truncation apart), and with an empty
\* history the current revision is the update revision.
C16_NewTemplate ==
    WasNew =>
        /\ Len(RevWritesOf("revCreate")) = 1
        /\ Len(RevWritesOf("revUpdate")) = 0
        /\ RevWritesOf("revCreate")[1].name = last.upd
        /\ [name |-> last.upd, tmpl |-> last.set.template,
            num |-> IF Len(last.listed) = 0 THEN 1
                    ELSE last.listed[Len(last.listed)].num + 1] \in revisions
        /\ Cardinality({r \in revisions : r.name = last.upd}) = 1
        /\ Cardinality(revisions) + Len(RevDeletes) = Len(last.listed) + 1
        /\ Len(last.listed) = 0 => last.cur = last.upd

\* a pass created the revision of a new template on top of a history of
\* MaxTemplate - 1 revisions
C16_Witness ==
    /\ WasNew
    /\ Len(last.listed) = MaxTemplate - 1
    /\ Len(RevWritesOf("revCreate")) = 1
    /\ last.cur # last.upd

\* the last pass tried to patch or delete the pod at ordinal o: a delete, an
\* image patch or InPlaceUpdateReady=False
TouchedAt(o) ==
    \E k \in 1 .. Len(last.ops) :
        /\ last.ops[k].ord = o
        /\ \/ last.ops[k].kind \in {"delete", "inplace"}
           \/ last.ops[k].kind = "cond" /\ last.ops[k].arg = "False"

\* the last pass set InPlaceUpdateReady=True on the pod at ordinal o
SetReadyAt(o) ==
    \E k \in 1 .. Len(last.ops) :
        /\ last.ops[k].ord = o
        /\ last.ops[k].kind = "cond" /\ last.ops[k].arg = "True" /\ last.ops[k].ok

\* every pod of the last pass's snapshot was healthy and at the current
\* revision, which is not the update revision
WasFirstUpdatePass ==
    /\ last.cur # last.upd
    /\ Len(last.snapshot) = InPlaceReplicas
    /\ \A k \in 1 .. Len(last.snapshot) :
          /\ isHealthy(last.set, last.snapshot[k])
          /\ ~checkInPlaceUpdateCompleted(last.snapshot[k])
          /\ getPodRevision(last.snapshot[k]) = last.cur

\* C17 (S5, in-place update serialization): with InPlaceIfPossible, partition
\* 1 and the default maxUnavailable, the first pass after the image change
\* touches the pod at ordinal 2 only (InPlaceUpdateReady=False and the image
\* patch when no call fails); a pass touches the pod at ordinal 1 only when
\* its snapshot shows the pod at ordinal 2 at the update revision, running
\* and ready, its imageID changed, and InPlaceUpdateReady True or set True by
\* this pass; no pass touches the pod at ordinal 0.
C17_InPlaceSerialization ==
    last.valid =>
        /\ ~TouchedAt(0)
        /\ WasFirstUpdatePass =>
              /\ \A k \in 1 .. Len(last.ops) : last.ops[k].ord = 2
              /\ (\A k \in 1 .. Len(last.ops) : last.ops[k].ok) =>
                    /\ Len(last.ops) = 2
                    /\ last.ops[1].kind = "cond" /\ last.ops[1].arg = "False"
                    /\ last.ops[2].kind = "inplace"
                    /\ getPodRevision(pods[2]) = last.upd
                    /\ checkInPlaceUpdateCompleted(pods[2])
        /\ TouchedAt(1) =>
              /\ Len(SnapshotAt(2)) = 1
              /\ getPodRevision(SnapshotAt(2)[1]) = last.upd
              /\ ~checkInPlaceUpdateCompleted(SnapshotAt(2)[1])
              /\ isRunningAndReady(SnapshotAt(2)[1])
              /\ ~isTerminating(SnapshotAt(2)[1])
              /\ SnapshotAt(2)[1].cond = "True" \/ SetReadyAt(2)
              /\ pods[2].cond = "True"

\* a pass patched the pod at ordinal 1 after it set InPlaceUpdateReady=True on
\* the pod at ordinal 2, whose image had changed
C17_Witness ==
    /\ last.valid
    /\ ~last.err
    /\ SetReadyAt(2)
    /\ \E k \in 1 .. Len(last.ops) :
          last.ops[k].ord = 1 /\ last.ops[k].kind = "inplace" /\ last.ops[k].ok
    /\ getPodRevision(pods[0]) = last.cur
    /\ getPodRevision(pods[1]) = last.upd

\* the forward sweep of the last pass got as far as the identity check of
\* ordinal i: under Parallel it does for every ordinal below spec.replicas,
\* under OrderedReady when the snapshot shows the pods at 0 .. i running and
\* ready and not terminating
ReachedAt(i) ==
    /\ i < last.set.replicas
    /\ last.set.policy = "OrderedReady" => \A j \in 0 .. i : WasReadyAt(j)

\* C18 (P2, identity): after every pass that returns without error, every
\* ordinal the forward sweep reached holds a pod that satisfies
\* identityMatches and storageMatches: under Parallel every ordinal below
\* spec.replicas, under OrderedReady every ordinal up to the first pod the
\* sweep waits on; and a pod of the snapshot the sweep reached that did not
\* match was repaired by a successful UpdateStatefulPod in that pass.
C18_Identity ==
    (last.valid /\ ~last.err) =>
        \A i \in Ordinals :
            ReachedAt(i) =>
                /\ pods[i] # NoPod
                /\ identityMatches(pods[i]) /\ storageMatches(pods[i])
                /\ (Len(SnapshotAt(i)) = 1 /\ NeedsRepair(SnapshotAt(i)[1])) =>
                      \E k \in 1 .. Len(last.ops) :
                          /\ last.ops[k].kind = "update"
                          /\ last.ops[k].ord = i
                          /\ last.ops[k].ok

\* an OrderedReady pass repaired the pod at ordinal 1 and went on to create
\* the pod at ordinal 2
C18_Witness ==
    /\ last.valid
    /\ ~last.err
    /\ last.set.policy = "OrderedReady"
    /\ Len(SnapshotAt(1)) = 1
    /\ NeedsRepair(SnapshotAt(1)[1])
    /\ ~NeedsRepair(pods[1])
    /\ \E k \in 1 .. Len(last.ops) : last.ops[k].kind = "create" /\ last.ops[k].ord = 2

\* C18 as stated: after every pass that returns without error, every pod of
\* the set satisfies identityMatches and storageMatches.
C18_AsStated ==
    (last.valid /\ ~last.err) =>
        \A o \in Ordinals :
            pods[o] # NoPod => identityMatches(pods[o]) /\ storageMatches(pods[o])

---------------------------------------------------------------------------
(* Scale convergence.  The set was scaled to any replica count over any    *)
(* store of pods that are pending or running and ready, terminating or     *)
(* not.  The controller is invoked again and again with a fresh snapshot,  *)
(* and a call may fail; the kubelet starts pods and makes them ready; a    *)
(* terminating pod leaves the store.                                       *)

LiveShapes(o) ==
    {NoPod} \cup {PodIn(o, phase, term, RevisionName(1)) :
                     phase \in {"Pending", "Running"}, term \in BOOLEAN}

InitScaleLive ==
    /\ \E n \in 0 .. MaxReplicas, policy \in {"OrderedReady", "Parallel"} :
          set = [NewSet(n, policy, "RollingUpdate", 0, Nil, "Recreate", FALSE, 1)
                    EXCEPT !.status.currentRevision = RevisionName(1),
                           !.status.updateRevision = RevisionName(1)]
    /\ pods \in [Ordinals -> UNION {LiveShapes(o) : o \in Ordinals}]
    /\ \A o \in Ordinals : pods[o] \in LiveShapes(o)
    /\ revisions = {RevisionOf(1, 1)}
    /\ last = NoPass

NextScaleLive ==
    \/ Reconcile
    \/ PodRunning
    \/ PodReady
    \/ PodGone

\* the last pass found nothing to do: it made no call, wrote nothing and
\* returned no error, and nothing has happened since.  These are the states
\* in which a pass without error changes nothing.
Settled ==
    /\ last.valid /\ ~last.err
    /\ last.ops = <<>> /\ ~last.wrote /\ last.revWrites = <<>>

\* weak fairness of the pass in which no call fails, with its enabling
\* condition written out: the controller keeps being invoked and from some
\* point on no call fails
FairReconcile == []<>Settled \/ []<><<UpdateStatefulSet(NoFail)>>_vars

\* a pending pod starts, a running pod becomes ready, a terminating pod goes
FairScaleLive ==
    /\ FairReconcile
    /\ WF_vars(PodRunning)
    /\ WF_vars(PodReady)
    /\ WF_vars(PodGone)

SpecScaleLive == InitScaleLive /\ [][NextScaleLive]_vars /\ FairScaleLive

\* exactly spec.replicas pods at the ordinals 0 .. replicas-1, all running
\* and ready, no condemned pod, and the stored status says so
Scaled ==
    /\ \A o \in Ordinals :
          IF o < set.replicas
          THEN pods[o] # NoPod /\ isRunningAndReady(pods[o]) /\ ~isTerminating(pods[o])
          ELSE pods[o] = NoPod
    /\ set.status.replicas = set.replicas
    /\ set.status.readyReplicas = set.replicas

\* C19: when the controller keeps being invoked on fresh snapshots, created
\* pods become running and ready, terminating pods leave and calls stop
\* failing, then under OrderedReady and under Parallel the store eventually
\* holds exactly spec.replicas ready pods at the ordinals 0 .. replicas-1 and
\* no other pod, with status.replicas = status.readyReplicas = spec.replicas,
\* also for replicas = 0; and it stays so.
C19_ScaleConvergence == <>[]Scaled

\* a pass found the set scaled, under a monotonic policy, with nothing to do
C19_Witness ==
    /\ Scaled
    /\ last.valid /\ ~last.err /\ last.ops = <<>>
    /\ set.policy = "OrderedReady"
    /\ set.replicas \in 1 .. MaxReplicas - 1
    /\ set.status.replicas = set.replicas

---------------------------------------------------------------------------
(* Rolling-update convergence.  A settled set of k > 0 healthy pods of the *)
(* first template gets its template edited and, with the same edit, its    *)
(* replica count set to n.  The controller is invoked again and again and  *)
(* a call may fail; pods start and become ready; the containers of pods    *)
(* updated in place restart.                                               *)

\* the set after the edit: n replicas wanted, k pods counted by the last status
RollingSet(n, k, policy, partition, maxUnavailable, podUpdatePolicy) ==
    [NewSet(n, policy, "RollingUpdate", partition, maxUnavailable,
            podUpdatePolicy, podUpdatePolicy # "Recreate", 1)
        EXCEPT !.template = 2,
               !.status = SettledStatus(k, RevisionName(1))]

InitRollingLive ==
    /\ \E n \in 0 .. MaxReplicas, k \in 1 .. MaxReplicas,
          policy \in {"OrderedReady", "Parallel"},
          partition \in {0, 1}, maxUnavailable \in {Nil, FromInt(2)},
          podUpdatePolicy \in {"Recreate", "InPlaceIfPossible"} :
          /\ set = RollingSet(n, k, policy, partition, maxUnavailable, podUpdatePolicy)
          /\ pods = [o \in Ordinals |->
                        IF o < k THEN HealthyPod(set, o, RevisionName(1)) ELSE NoPod]
    /\ revisions = {RevisionOf(1, 1)}
    /\ last = NoPass

NextRollingLive ==
    \/ Reconcile
    \/ PodRunning
    \/ PodReady
    \/ ImageChanged

\* the fairness of scaling, and a patched container restarts
FairRollingLive ==
    /\ FairReconcile
    /\ WF_vars(PodRunning)
    /\ WF_vars(PodReady)
    /\ WF_vars(ImageChanged)

SpecRollingLive == InitRollingLive /\ [][NextRollingLive]_vars /\ FairRollingLive

\* every non-terminating pod at or above the partition is of the revision
\* of the set's template
Updated ==
    \A o \in Ordinals :
        (pods[o] # NoPod /\ ~isTerminating(pods[o]) /\ o >= Partition(set)) =>
            getPodRevision(pods[o]) = RevisionName(set.template)

\* all replicas pods exist and are of the revision of the set's template
AllAtUpdate ==
    \A o \in Ordinals :
        o < set.replicas =>
            pods[o] # NoPod /\ getPodRevision(pods[o]) = RevisionName(set.template)

\* the stored status names the update revision as the current one
Completed ==
    /\ set.status.updateRevision = RevisionName(set.template)
    /\ set.status.currentRevision = set.status.updateRevision
    /\ set.status.currentReplicas = set.status.updatedReplicas

---------------------------------------------------------------------------
(* One pass with a failing call, and the pass after it.  The set has been  *)
(* reconciled before and its template never changed; every ordinal holds   *)
(* no pod, a pod that is pending, running and ready or failed, a           *)
(* terminating pod, a pod whose identity was changed, or (when the set     *)
(* declares the readiness gate) a pod whose in-place update has completed  *)
(* and whose InPlaceUpdateReady is still False.  A pass that returned an   *)
(* error is followed by a pass over a fresh snapshot in which no call      *)
(* fails: the request tracker's error fires once.                          *)

\* a pod of the first revision with the gate's condition as the set has it
FaultPod(s, o, phase, term) ==
    [PodIn(o, phase, term, RevisionName(1))
        EXCEPT !.cond = IF s.gate THEN "True" ELSE "None"]

FaultShapes(s, o) ==
    {NoPod, FaultPod(s, o, "Running", TRUE)}
    \cup {FaultPod(s, o, phase, FALSE) : phase \in {"Pending", "Running", "Failed"}}
    \cup {[FaultPod(s, o, "Running", FALSE) EXCEPT !.ok = FALSE]}
    \cup (IF s.gate
          THEN {[FaultPod(s, o, "Running", FALSE) EXCEPT !.cond = "False"]}
          ELSE {})

\* a reconciled set of n replicas, with or without the readiness gate
FaultSet(n, policy, gate) ==
    [NewSet(n, policy, "RollingUpdate", 0, Nil,
            IF gate THEN "InPlaceIfPossible" ELSE "Recreate", gate, 1)
        EXCEPT !.status.currentRevision = RevisionName(1),
               !.status.updateRevision = RevisionName(1)]

InitFaultPass ==
    /\ \E n \in 0 .. MaxReplicas, policy \in {"OrderedReady", "Parallel"},
          gate \in BOOLEAN :
          set = FaultSet(n, policy, gate)
    /\ pods \in [Ordinals -> UNION {FaultShapes(set, o) : o \in Ordinals}]
    /\ \A o \in Ordinals : pods[o] \in FaultShapes(set, o)
    /\ revisions = {RevisionOf(1, 1)}
    /\ last = NoPass

\* UpdateStatefulSet called again after a pass that returned an error, on a
\* fresh snapshot and with the error cleared
Retry ==
    /\ last.valid
    /\ last.err
    /\ ~last.again
    /\ AgainWithRevisions(set, getStatefulSetRevisions(set, ListRevisions),
                          Snapshot(pods), ListRevisions)

NextFaultPass ==
    \/ ReconcileOnce
    \/ Retry

SpecFaultPass == InitFaultPass /\ [][NextFaultPass]_vars

\* a call whose error the pass returns: every failed call but the condition
\* update and the image patch of an in-place update in the update sweep
Aborting(op) ==
    /\ ~op.ok
    /\ ~(op.sweep = "update" /\ op.kind \in {"cond", "inplace"})

\* the last pass made a call whose error it returns
PodCallFailed == \E k \in 1 .. Len(last.ops) : Aborting(last.ops[k])

\* the successful creates and deletes of the last pass at ordinal o
Writes(o) ==
    SelectSeq(last.ops,
              LAMBDA op : op.ord = o /\ op.ok /\ op.kind \in {"create", "delete"})

\* the pod at ordinal o is what the successful calls of the last pass made
\* of the pod the snapshot held there
Kept(o) ==
    IF Len(Writes(o)) > 0
    THEN IF Writes(o)[Len(Writes(o))].kind = "create"
         THEN pods[o] # NoPod /\ pods[o].phase = "Pending"
         ELSE pods[o] = NoPod
    ELSE IF \E k \in 1 .. Len(last.ops) : last.ops[k].ord = o /\ last.ops[k].ok
    THEN pods[o] # NoPod /\ LastStore[o] # NoPod
    ELSE pods[o] = LastStore[o]

\* C21 (abort on error): when CreateStatefulPod, DeleteStatefulPod,
\* UpdateStatefulPod or the forward sweep's UpdateStatefulPodCondition fails,
\* the failing call is the last call of the pass, UpdateStatefulSet returns an
\* error, the status is not written and no revision is deleted; when the
\* status write fails, UpdateStatefulSet returns an error, the stored status
\* is unchanged and no revision is deleted; UpdateStatefulSet returns an error
\* in no other case; and the pods are as the successful calls of the pass
\* left them.
C21_AbortOnError ==
    last.valid =>
        /\ \A k \in 1 .. Len(last.ops) :
              Aborting(last.ops[k]) =>
                  /\ k = Len(last.ops)
                  /\ last.err
                  /\ ~last.wrote
                  /\ set.status = last.set.status
                  /\ RevDeletes = <<>>
        /\ (last.err /\ ~PodCallFailed) =>
              /\ last.wrote
              /\ set.status = last.set.status
              /\ RevDeletes = <<>>
        /\ (~last.err /\ last.wrote) => set.status # last.set.status
        /\ \A o \in Ordinals : Kept(o)

\* a burst pass created a pod and deleted a failed pod before a create failed
C21_Witness ==
    /\ last.valid /\ last.err /\ ~last.again
    /\ Len(last.ops) >= 3
    /\ ~last.ops[Len(last.ops)].ok
    /\ last.ops[Len(last.ops)].kind = "create"
    /\ \E j, k \in 1 .. (Len(last.ops) - 1) :
          /\ last.ops[j].kind = "create" /\ last.ops[j].ok
          /\ pods[last.ops[j].ord] # NoPod
          /\ last.ops[k].kind = "delete" /\ last.ops[k].ok
    /\ ~last.wrote

\* the last pass's snapshot held a failed pod at ordinal i
FailedAt(i) == Len(SnapshotAt(i)) = 1 /\ isFailed(SnapshotAt(i)[1])

\* the call number k of the last pass is a call of that kind at ordinal i
IsCall(k, kind, i) ==
    /\ k \in 1 .. Len(last.ops)
    /\ last.ops[k].kind = kind
    /\ last.ops[k].ord = i

\* the forward sweep of the last pass got to ordinal i: no call at a lower
\* ordinal failed and, under OrderedReady, the snapshot shows every lower
\* ordinal running and ready and not terminating
CameTo(i) ==
    /\ \A k \in 1 .. Len(last.ops) :
          (last.ops[k].sweep = "forward" /\ last.ops[k].ord < i) => last.ops[k].ok
    /\ last.set.policy = "OrderedReady" => \A j \in 0 .. (i - 1) : WasReadyAt(j)

\* the pass before ended with a failed delete of the failed pod at ordinal i
DeleteFailedBefore(i) ==
    /\ last.again
    /\ Len(last.prior.ops) > 0
    /\ last.prior.ops[Len(last.prior.ops)].kind = "delete"
    /\ last.prior.ops[Len(last.prior.ops)].sweep = "forward"
    /\ last.prior.ops[Len(last.prior.ops)].ord = i
    /\ ~last.prior.ops[Len(last.prior.ops)].ok

\* C22 (failed-pod recreation): for a failed pod at an ordinal i below
\* spec.replicas, a pass whose forward sweep gets to i issues
\* DeleteStatefulPod for it; a successful delete is followed at once, in the
\* same pass, by CreateStatefulPod at i, and no create at i comes without it;
\* after a failed delete the pass issues no create at i and the failed pod
\* stays; the pass after a failed delete, in which no call fails, deletes the
\* pod and creates its successor.
C22_FailedRecreation ==
    last.valid =>
        \A i \in Ordinals :
            /\ (i < last.set.replicas /\ FailedAt(i)) =>
                  /\ (~IsBeingDeleted(last.set) /\ CameTo(i)) =>
                        \E k \in 1 .. Len(last.ops) :
                            IsCall(k, "delete", i) /\ last.ops[k].sweep = "forward"
                  /\ \A k \in 1 .. Len(last.ops) :
                        /\ (IsCall(k, "delete", i) /\ last.ops[k].ok) =>
                              IsCall(k + 1, "create", i)
                        /\ IsCall(k, "create", i) =>
                              /\ IsCall(k - 1, "delete", i)
                              /\ last.ops[k - 1].ok
                        /\ (IsCall(k, "delete", i) /\ ~last.ops[k].ok) =>
                              /\ k = Len(last.ops)
                              /\ pods[i] = SnapshotAt(i)[1]
            /\ DeleteFailedBefore(i) =>
                  \E k \in 1 .. Len(last.ops) :
                      /\ IsCall(k, "delete", i) /\ last.ops[k].ok
                      /\ IsCall(k + 1, "create", i) /\ last.ops[k + 1].ok
                      /\ pods[i] # NoPod /\ ~isFailed(pods[i])

\* the delete of the failed pod at ordinal 1 failed, and the pass after it
\* deleted the pod and created its successor
C22_Witness ==
    /\ last.valid /\ ~last.err
    /\ DeleteFailedBefore(1)
    /\ FailedAt(1)
    /\ \E k \in 1 .. Len(last.ops) :
          /\ IsCall(k, "delete", 1) /\ last.ops[k].ok
          /\ IsCall(k + 1, "create", 1) /\ last.ops[k + 1].ok
    /\ pods[1].phase = "Pending"

---------------------------------------------------------------------------
(* One pass over a set that may be being deleted: the template was edited  *)
(* from 1 to 2 and both revisions exist; the set wants any number of       *)
(* replicas and carries a deletion timestamp or not; every ordinal holds   *)
(* no pod, a healthy pod of either revision, a failed pod of the first     *)
(* revision or a pending pod of the second.                                *)

DeletingShapes(o) ==
    {NoPod, PodIn(o, "Failed", FALSE, RevisionName(1)),
     PodIn(o, "Pending", FALSE, RevisionName(2))}
    \cup {PodIn(o, "Running", FALSE, RevisionName(t)) : t \in {1, 2}}

InitDeletingPass ==
    /\ \E n \in 0 .. MaxReplicas, policy \in {"OrderedReady", "Parallel"},
          deleting \in BOOLEAN :
          set = [UpdatingSet(policy, "RollingUpdate", 0, Nil, "Recreate")
                    EXCEPT !.replicas = n, !.deleting = deleting]
    /\ pods \in [Ordinals -> UNION {DeletingShapes(o) : o \in Ordinals}]
    /\ \A o \in Ordinals : pods[o] \in DeletingShapes(o)
    /\ revisions = {RevisionOf(1, 1), RevisionOf(2, 2)}
    /\ last = NoPass

NextDeletingPass == ReconcileOnce

SpecDeletingPass == InitDeletingPass /\ [][NextDeletingPass]_vars

\* C23 (set being deleted): a pass over a set whose deletionTimestamp is set
\* issues no pod control call, leaves every pod as the snapshot has it, and
\* returns the counters of the snapshot with the names of the current and the
\* update revision; it returns an error only when the status write fails.
C23_SetBeingDeleted ==
    (last.valid /\ last.set.deleting) =>
        /\ last.ops = <<>>
        /\ pods = LastStore
        /\ last.status =
              CountPods(last.snapshot, Len(last.snapshot), last.cur, last.upd)
                  @@ [currentRevision |-> last.cur, updateRevision |-> last.upd]
        /\ last.err => last.wrote

\* a pass over a set being deleted saw a failed pod and a missing pod below
\* spec.replicas, an outdated pod and a condemned pod, and made no call
C23_Witness ==
    /\ last.valid /\ ~last.err
    /\ last.set.deleting
    /\ last.ops = <<>>
    /\ last.cur # last.upd
    /\ \E i, j \in Ordinals :
          /\ i < last.set.replicas /\ FailedAt(i)
          /\ j < last.set.replicas /\ Len(SnapshotAt(j)) = 0
    /\ \E i \in Ordinals :
          /\ i >= last.set.replicas /\ Len(SnapshotAt(i)) = 1
    /\ \E i \in Ordinals :
          /\ Len(SnapshotAt(i)) = 1
          /\ getPodRevision(SnapshotAt(i)[1]) # last.upd

---------------------------------------------------------------------------
(* The writes of an in-place update.                                       *)

\* the k-th call of the last pass is a failed condition update or image
\* patch of an in-place update in the update sweep
InPlaceFailed(k) ==
    /\ ~last.ops[k].ok
    /\ last.ops[k].sweep = "update"
    /\ last.ops[k].kind \in {"cond", "inplace"}

\* the update sweep of the last pass went on to count the pod at ordinal o
CountedAt(o) == \E j \in 1 .. Len(last.seen) : last.seen[j].ord = o

\* C24 (in-place write errors): a failed write of an in-place update in the
\* update sweep (InPlaceUpdateReady=False or the image patch) does not abort
\* the pass and is not returned: the sweep goes on to count the pod and
\* UpdateStatefulSet returns no error; every other failed pod control call is
\* the last call of the pass and UpdateStatefulSet returns an error.
C24_InPlaceErrors ==
    last.valid =>
        \A k \in 1 .. Len(last.ops) :
            /\ InPlaceFailed(k) =>
                  /\ ~last.err
                  /\ CountedAt(last.ops[k].ord)
                  /\ last.wrote <=> (set.status # last.set.status)
            /\ (~last.ops[k].ok /\ ~InPlaceFailed(k)) =>
                  /\ last.err
                  /\ k = Len(last.ops)

\* an image patch failed under InPlaceOnly, the sweep went on to patch a
\* lower ordinal, and the pass returned no error and wrote the status
C24_Witness ==
    /\ last.valid
    /\ isInPlaceOnly(last.set)
    /\ ~last.err
    /\ last.wrote
    /\ \E k \in 1 .. Len(last.ops) :
          /\ InPlaceFailed(k)
          /\ last.ops[k].kind = "inplace"
          /\ \E j \in (k + 1) .. Len(last.ops) :
                /\ last.ops[j].kind = "inplace"
                /\ last.ops[j].ok
                /\ last.ops[j].ord < last.ops[k].ord

\* C24 as stated: every failed write is the last call of the pass and
\* UpdateStatefulSet returns an error
C24_AsStated ==
    last.valid =>
        \A k \in 1 .. Len(last.ops) :
            ~last.ops[k].ok => (last.err /\ k = Len(last.ops))

\* C25 (in-place protocol order): every InPlaceUpdateStatefulPod call comes
\* right after a successful UpdateStatefulPodCondition call that set
\* InPlaceUpdateReady=False on the same pod in the update sweep; every such
\* successful condition update is followed at once by the image patch of that
\* pod; and after a failed condition update the pass issues no image patch
\* for that pod.
C25_InPlaceOrder ==
    last.valid =>
        \A k \in 1 .. Len(last.ops) :
            /\ last.ops[k].kind = "inplace" =>
                  /\ k > 1
                  /\ last.ops[k - 1].kind = "cond"
                  /\ last.ops[k - 1].arg = "False"
                  /\ last.ops[k - 1].ok
                  /\ last.ops[k - 1].ord = last.ops[k].ord
                  /\ last.ops[k - 1].sweep = "update"
                  /\ last.ops[k].sweep = "update"
            /\ (last.ops[k].kind = "cond" /\ last.ops[k].sweep = "update") =>
                  /\ last.ops[k].arg = "False"
                  /\ last.ops[k].ok =>
                        /\ k < Len(last.ops)
                        /\ last.ops[k + 1].kind = "inplace"
                        /\ last.ops[k + 1].ord = last.ops[k].ord
                  /\ ~last.ops[k].ok =>
                        \A j \in 1 .. Len(last.ops) :
                            ~(last.ops[j].kind = "inplace"
                              /\ last.ops[j].ord = last.ops[k].ord)

\* the condition update of one pod failed and no patch followed; a lower pod
\* got its condition set and its images patched in the same pass
C25_Witness ==
    /\ last.valid
    /\ \E k \in 1 .. Len(last.ops) :
          /\ InPlaceFailed(k)
          /\ last.ops[k].kind = "cond"
          /\ \E j \in (k + 2) .. Len(last.ops) :
                /\ last.ops[j].kind = "inplace"
                /\ last.ops[j].ok
                /\ last.ops[j - 1].kind = "cond"
                /\ last.ops[j].ord < last.ops[k].ord
                /\ pods[last.ops[j].ord].rev = last.upd
                /\ pods[last.ops[j].ord].cond = "False"

\* the last pass called DeleteStatefulPod for the pod at ordinal o
DeleteCalledAt(o) ==
    \E j \in 1 .. Len(last.ops) : last.ops[j].kind = "delete" /\ last.ops[j].ord = o

\* C26 (in-place failure fallback): after a failed condition update or image
\* patch of an in-place update, the next call of the pass is the
\* DeleteStatefulPod of that pod when podUpdatePolicy is not InPlaceOnly;
\* under InPlaceOnly the pass calls DeleteStatefulPod for that pod nowhere,
\* the pod stays at its revision, and the sweep goes on to count it.
C26_InPlaceFallback ==
    last.valid =>
        \A k \in 1 .. Len(last.ops) :
            InPlaceFailed(k) =>
                IF isInPlaceOnly(last.set)
                THEN /\ ~DeleteCalledAt(last.ops[k].ord)
                     /\ pods[last.ops[k].ord] # NoPod
                     /\ pods[last.ops[k].ord].rev = LastStore[last.ops[k].ord].rev
                     /\ CountedAt(last.ops[k].ord)
                ELSE /\ k < Len(last.ops)
                     /\ last.ops[k + 1].kind = "delete"
                     /\ last.ops[k + 1].ord = last.ops[k].ord
                     /\ last.ops[k + 1].sweep = "update"
                     /\ last.ops[k + 1].ok
                     /\ pods[last.ops[k].ord] = NoPod

\* the image patch of a pod failed under InPlaceIfPossible and the pod was
\* deleted by the next call
C26_Witness ==
    /\ last.valid
    /\ last.set.podUpdatePolicy = "InPlaceIfPossible"
    /\ \E k \in 1 .. (Len(last.ops) - 1) :
          /\ InPlaceFailed(k)
          /\ last.ops[k].kind = "inplace"
          /\ last.ops[k + 1].kind = "delete"
          /\ last.ops[k + 1].ok
          /\ pods[last.ops[k].ord] = NoPod
          /\ LastStore[last.ops[k].ord] # NoPod

---------------------------------------------------------------------------
(* One pass of an update under each pod update policy: the template was    *)
(* edited from 1 to 2 (another image) or to 3 (another shape) and the new  *)
(* revision exists; every ordinal holds a healthy pod of either revision   *)
(* or (when the set declares the readiness gate) a pod of either revision  *)
(* whose last in-place update has not completed.                           *)

\* the set after the edit to template u
PolicySet(policy, maxUnavailable, podUpdatePolicy, u) ==
    [UpdatingSet(policy, "RollingUpdate", 0, maxUnavailable, podUpdatePolicy)
        EXCEPT !.template = u,
               !.status.updateRevision = RevisionName(u)]

PolicyShapes(s, o) ==
    {HealthyPod(s, o, RevisionName(t)) : t \in {1, s.template}}
    \cup (IF s.gate
          THEN {[HealthyPod(s, o, RevisionName(t)) EXCEPT !.cond = "False", !.ipp = TRUE] :
                   t \in {1, s.template}}
          ELSE {})

InitPolicyPass ==
    /\ \E policy \in {"OrderedReady", "Parallel"},
          maxUnavailable \in {Nil, FromInt(2)},
          podUpdatePolicy \in {"Recreate", "InPlaceIfPossible", "InPlaceOnly"},
          u \in {2, 3} :
          /\ set = PolicySet(policy, maxUnavailable, podUpdatePolicy, u)
          /\ revisions = {RevisionOf(1, 1), RevisionOf(u, 2)}
    /\ pods \in [Ordinals -> UNION {PolicyShapes(set, o) : o \in Ordinals}]
    /\ \A o \in Ordinals : pods[o] \in PolicyShapes(set, o)
    /\ last = NoPass

NextPolicyPass == ReconcileOnce

SpecPolicyPass == InitPolicyPass /\ [][NextPolicyPass]_vars

\* the update revision of the last pass
LastUpdateRevision == CHOOSE r \in LastListed : r.name = last.upd

\* the snapshot of the last pass held at ordinal o a pod that is not at the
\* update revision and not terminating
OutdatedAt(o) ==
    /\ LastStore[o] # NoPod
    /\ getPodRevision(LastStore[o]) # last.upd
    /\ ~isTerminating(LastStore[o])

\* the decider chose an in-place update for the pod the snapshot held at o
InPlaceChosenAt(o) ==
    shouldDoInPlaceUpdate(last.set, LastUpdateRevision,
                          getPodRevision(LastStore[o]), last.listed)

\* the calls of the update sweep of the last pass for ordinal o
UpdateCallsAt(o) == SelectSeq(UpdateSweepCalls, LAMBDA op : op.ord = o)

\* the update sweep of the last pass counted the pod at o as unavailable
CountedUnavailableAt(o) ==
    \E j \in 1 .. Len(last.seen) : last.seen[j].ord = o /\ last.seen[j].counted

\* C27 (ineligible diff): when the update sweep comes to a pod that is not at
\* the update revision and for which the decider does not choose an in-place
\* update, its one call for that pod is DeleteStatefulPod, under InPlaceOnly
\* as under every other policy; when the delete succeeds the pod is gone and
\* the ordinal is counted as unavailable, when it fails the pass returns the
\* error.
C27_IneligibleDiff ==
    last.valid =>
        \A o \in Ordinals :
            (/\ OutdatedAt(o)
             /\ ~InPlaceChosenAt(o)
             /\ (CountedAt(o) \/ Len(UpdateCallsAt(o)) > 0)) =>
                /\ Len(UpdateCallsAt(o)) = 1
                /\ UpdateCallsAt(o)[1].kind = "delete"
                /\ UpdateCallsAt(o)[1].ok =>
                      /\ pods[o] = NoPod
                      /\ CountedUnavailableAt(o)
                /\ ~UpdateCallsAt(o)[1].ok =>
                      /\ last.err
                      /\ pods[o] = LastStore[o]
                      /\ ~CountedAt(o)

\* under InPlaceOnly a pod whose revision differs from the update revision
\* in more than images was deleted by the update sweep
C27_Witness ==
    /\ last.valid
    /\ isInPlaceOnly(last.set)
    /\ ~last.err
    /\ \E o \in Ordinals :
          /\ OutdatedAt(o)
          /\ ~InPlaceChosenAt(o)
          /\ Base(LastUpdateRevision.tmpl) # Base(1)
          /\ Len(UpdateCallsAt(o)) = 1
          /\ UpdateCallsAt(o)[1].kind = "delete"
          /\ pods[o] = NoPod
          /\ CountedUnavailableAt(o)

\* C27 as stated: under InPlaceOnly the update sweep does not delete a pod
\* for which the decider does not choose an in-place update; the pod stays at
\* its revision and is counted as unavailable
C27_AsStated ==
    (last.valid /\ isInPlaceOnly(last.set)) =>
        \A o \in Ordinals :
            (/\ OutdatedAt(o)
             /\ ~InPlaceChosenAt(o)
             /\ (CountedAt(o) \/ Len(UpdateCallsAt(o)) > 0)) =>
                /\ ~DeleteCalledAt(o)
                /\ pods[o] # NoPod
                /\ getPodRevision(pods[o]) = getPodRevision(LastStore[o])
                /\ CountedUnavailableAt(o)

\* the snapshot of the last pass held at ordinal o a pod that is not at the
\* update revision, for which an in-place update is chosen, and whose last
\* in-place update is not observed complete
PendingAt(o) ==
    /\ OutdatedAt(o)
    /\ InPlaceChosenAt(o)
    /\ checkInPlaceUpdateCompleted(LastStore[o])

\* the pods of the current revision that the update sweep of the last pass
\* took out of status.currentReplicas: those it called the pod control for,
\* unless the call was a delete that failed
Lowered ==
    {o \in Ordinals :
        /\ LastStore[o] # NoPod
        /\ getPodRevision(LastStore[o]) = last.cur
        /\ Len(UpdateCallsAt(o)) > 0
        /\ \A k \in 1 .. Len(UpdateCallsAt(o)) :
              ~(UpdateCallsAt(o)[k].kind = "delete" /\ ~UpdateCallsAt(o)[k].ok)}

\* C28 (pending in-place update): when the update sweep comes to a pod that
\* is not at the update revision, for which an in-place update is chosen and
\* whose last in-place update is not observed complete, the sweep issues no
\* call for that pod (no condition update, no patch, no delete), the pod stays
\* as the snapshot held it, the pod is counted as unavailable, and
\* status.currentReplicas is the snapshot's count less the pods of the current
\* revision that the sweep did update, the pending pod not among them.
C28_PendingInPlace ==
    last.valid =>
        \A j \in 1 .. Len(last.seen) :
            PendingAt(last.seen[j].ord) =>
                /\ UpdateCallsAt(last.seen[j].ord) = <<>>
                /\ pods[last.seen[j].ord] = LastStore[last.seen[j].ord]
                /\ last.seen[j].counted
                /\ ~last.seen[j].disrupted
                /\ last.seen[j].ord \notin Lowered
                /\ last.status.currentReplicas =
                      CountPods(last.snapshot, Len(last.snapshot), last.cur,
                                last.upd).currentReplicas - Cardinality(Lowered)

\* the sweep passed over a pending pod of the current revision, which still
\* counts in status.currentReplicas, and patched a lower pod
C28_Witness ==
    /\ last.valid
    /\ ~last.err
    /\ \E j \in 1 .. Len(last.seen) :
          /\ PendingAt(last.seen[j].ord)
          /\ getPodRevision(LastStore[last.seen[j].ord]) = last.cur
          /\ last.seen[j].counted
          /\ \E k \in 1 .. Len(last.ops) :
                /\ last.ops[k].kind = "inplace"
                /\ last.ops[k].ok
                /\ last.ops[k].ord < last.seen[j].ord
          /\ last.status.currentReplicas = Len(last.snapshot) - 1

---------------------------------------------------------------------------
(* The completion of an in-place update.                                   *)

\* the forward sweep of the last pass came to the check of lines 428-441
\* with the pod the snapshot held at ordinal i
ExaminedAt(i) ==
    /\ i < last.set.replicas
    /\ CameTo(i)
    /\ LastStore[i] # NoPod
    /\ ~isFailed(LastStore[i])
    /\ last.set.policy = "OrderedReady" => ~isTerminating(LastStore[i])

\* the calls of the forward sweep of the last pass that set a condition on
\* the pod at ordinal i
ForwardConditionsAt(i) ==
    SelectSeq(last.ops,
              LAMBDA op : op.kind = "cond" /\ op.sweep = "forward" /\ op.ord = i)

\* what a pass does about InPlaceUpdateReady in its forward sweep
ConditionFollowsCompletion ==
    last.valid =>
        \A i \in Ordinals :
            /\ Len(ForwardConditionsAt(i)) > 0 => ExaminedAt(i)
            /\ ExaminedAt(i) =>
                  /\ Len(ForwardConditionsAt(i)) =
                        IF /\ last.set.gate
                           /\ ~checkInPlaceUpdateCompleted(LastStore[i])
                           /\ LastStore[i].cond # "True"
                        THEN 1 ELSE 0
                  /\ \A k \in 1 .. Len(ForwardConditionsAt(i)) :
                        /\ ForwardConditionsAt(i)[k].arg = "True"
                        /\ ForwardConditionsAt(i)[k].ok =>
                              /\ pods[i] # NoPod
                              /\ pods[i].cond = "True"
                        /\ ~ForwardConditionsAt(i)[k].ok =>
                              /\ last.err
                              /\ pods[i] = LastStore[i]
                  /\ (/\ last.set.gate
                      /\ checkInPlaceUpdateCompleted(LastStore[i])
                      /\ LastStore[i].cond = "False") =>
                        /\ pods[i] # NoPod
                        /\ pods[i].cond = "False"

\* the pod at ordinal o is in an in-place update: its images were patched and
\* its containers have not restarted yet
InPlaceUpdating(o) == pods[o] # NoPod /\ checkInPlaceUpdateCompleted(pods[o])

\* the in-place update of the pod at ordinal o is over and acknowledged
InPlaceReady(o) ==
    /\ pods[o] # NoPod
    /\ ~checkInPlaceUpdateCompleted(pods[o])
    /\ pods[o].cond = "True"

\* C29 (in-place completion): a pass whose forward sweep comes to a created
\* pod below spec.replicas calls UpdateStatefulPodCondition with
\* InPlaceUpdateReady=True for it exactly when the set declares the readiness
\* gate, the pod's last in-place update is observed complete and the
\* condition is not True already, and it makes that call nowhere else; while
\* the update is not observed complete the condition stays False; and, the
\* containers of a patched pod restarting and the set being reconciled again,
\* every pod in an in-place update is eventually a pod whose update is
\* complete with InPlaceUpdateReady=True.
C29_InPlaceCompletion ==
    /\ []ConditionFollowsCompletion
    /\ \A o \in Ordinals : InPlaceUpdating(o) ~> InPlaceReady(o)

\* a pass set InPlaceUpdateReady=True on a pod of the update revision whose
\* containers had restarted, and left False the condition of another pod
\* whose containers had not
C29_Witness ==
    /\ last.valid
    /\ \E i, j \in Ordinals :
          /\ ExaminedAt(i)
          /\ LastStore[i].cond = "False"
          /\ getPodRevision(LastStore[i]) = last.upd
          /\ Len(ForwardConditionsAt(i)) = 1
          /\ InPlaceReady(i)
          /\ ExaminedAt(j)
          /\ InPlaceUpdating(j)
          /\ pods[j].cond = "False"
          /\ Len(ForwardConditionsAt(j)) = 0

---------------------------------------------------------------------------
(* Waiting on a terminating pod.                                           *)

\* the forward sweep of the last pass came to ordinal i, where the snapshot
\* held a terminating pod
TerminatingAt(i) ==
    /\ i < last.set.replicas
    /\ CameTo(i)
    /\ LastStore[i] # NoPod
    /\ isTerminating(LastStore[i])

\* the last pass issued no call for ordinal i or a higher one, none in the
\* scale-down sweep and none in the update sweep, and left those pods alone
StoppedAt(i) ==
    /\ \A k \in 1 .. Len(last.ops) :
          last.ops[k].ord < i /\ last.ops[k].sweep = "forward"
    /\ \A j \in Ordinals : j >= i => pods[j] = LastStore[j]

---------------------------------------------------------------------------
(* The guard of the scale-down sweep.                                      *)

\* the ordinals at which the snapshot of the last pass has no healthy pod:
\* a missing pod below spec.replicas, or a pod that is not healthy
UnhealthyOrdinals ==
    {o \in Ordinals :
        IF LastStore[o] = NoPod THEN o < last.set.replicas
        ELSE ~isHealthy(last.set, LastStore[o])}

\* the pod of smallest ordinal that is not healthy is at ordinal o
IsFirstUnhealthy(o) ==
    o \in UnhealthyOrdinals /\ \A u \in UnhealthyOrdinals : o <= u

\* the condemned ordinals of the last pass's snapshot
CondemnedOrdinals ==
    {o \in Ordinals : o >= last.set.replicas /\ LastStore[o] # NoPod}

\* the scale-down sweep of the last OrderedReady pass began with the
\* condemned pod at ordinal o: the forward sweep found every pod below
\* spec.replicas running and ready, and o is the largest condemned ordinal
ScaleDownBeganAt(o) ==
    /\ \A j \in Ordinals : j < last.set.replicas => WasReadyAt(j)
    /\ \A k \in 1 .. Len(last.ops) : last.ops[k].sweep = "forward" => last.ops[k].ok
    /\ o \in CondemnedOrdinals
    /\ \A u \in CondemnedOrdinals : u <= o

\* the calls of the scale-down sweep of the last pass
ScaleDownCalls == SelectSeq(last.ops, LAMBDA op : op.sweep = "scaledown")

\* C31 (scale-down guard): under OrderedReady, every call of the scale-down
\* sweep is the delete of a condemned pod that is not terminating and that is
\* running and ready or else the first unhealthy pod; when the sweep begins
\* with a condemned pod that is not terminating, not running and ready and
\* not the first unhealthy pod, the pass issues no scale-down call and no
\* update call and leaves every condemned pod in place; when that pod is the
\* first unhealthy pod, the pass calls DeleteStatefulPod for it.
C31_ScaleDownGuard ==
    (last.valid /\ last.set.policy = "OrderedReady") =>
        /\ \A k \in 1 .. Len(ScaleDownCalls) :
              /\ ScaleDownCalls[k].kind = "delete"
              /\ ScaleDownCalls[k].ord \in CondemnedOrdinals
              /\ ~isTerminating(LastStore[ScaleDownCalls[k].ord])
              /\ \/ isRunningAndReady(LastStore[ScaleDownCalls[k].ord])
                 \/ IsFirstUnhealthy(ScaleDownCalls[k].ord)
        /\ \A o \in Ordinals :
              (/\ ScaleDownBeganAt(o)
               /\ ~isTerminating(LastStore[o])
               /\ ~isRunningAndReady(LastStore[o])) =>
                  IF IsFirstUnhealthy(o)
                  THEN /\ Len(ScaleDownCalls) = 1
                       /\ ScaleDownCalls[1].ord = o
                  ELSE /\ last.ops = <<>>
                       /\ \A u \in CondemnedOrdinals : pods[u] = LastStore[u]
                       /\ last.err => last.wrote

\* the sweep began with a pending condemned pod above another pending
\* condemned pod, and the pass deleted neither
C31_Witness ==
    /\ last.valid
    /\ last.set.policy = "OrderedReady"
    /\ last.set.replicas = 1
    /\ ScaleDownBeganAt(2)
    /\ LastStore[2].phase = "Pending"
    /\ ~isTerminating(LastStore[2])
    /\ LastStore[1] # NoPod
    /\ IsFirstUnhealthy(1)
    /\ last.ops = <<>>
    /\ pods[2] # NoPod

---------------------------------------------------------------------------
(* The current revision of a pass.                                         *)

\* the revisions getStatefulSetRevisions resolved for the last pass
LastResolved == getStatefulSetRevisions(last.set, last.listed)

\* the revisions the last pass listed that carry the name the status holds
NamedCurrent == {r \in LastListed : r.name = last.set.status.currentRevision}

\* C34 (current revision selection): when a listed revision carries the name
\* in set.status.currentRevision, getStatefulSetRevisions returns that listed
\* revision as currentRevision (as it was listed, also when the same pass
\* bumps it to make it the update revision); when none does, it returns the
\* update revision; and the pass reports that name in its status.
C34_CurrentRevision ==
    last.valid =>
        /\ IF NamedCurrent # {}
           THEN LastResolved.cur \in NamedCurrent
           ELSE LastResolved.cur = LastResolved.upd
        /\ last.cur = LastResolved.cur.name
        /\ last.upd = LastResolved.upd.name
        /\ last.status.currentRevision = last.cur

\* a pass whose status names a listed revision that is not the update
\* revision
C34_Witness ==
    /\ last.valid
    /\ NamedCurrent # {}
    /\ last.cur = last.set.status.currentRevision
    /\ last.cur # last.upd
    /\ Len(last.listed) >= 2

---------------------------------------------------------------------------
(* The status write.                                                       *)

\* the status of the last pass after completeRollingUpdate
LastCompleted == completeRollingUpdate(last.set, last.status)

\* C33 (status write suppression): UpdateStatefulSetStatus is called exactly
\* when the pass returned no error and its status, after
\* completeRollingUpdate, differs from the status of the set the pass was
\* given; when it is not called, or fails, the stored status is unchanged;
\* when it succeeds, the stored status is the completed status.
C33_StatusWrite ==
    last.valid =>
        /\ last.wrote <=> (~PodCallFailed /\ LastCompleted # last.set.status)
        /\ (~last.wrote \/ last.err) => set.status = last.set.status
        /\ (last.wrote /\ ~last.err) => set.status = LastCompleted

\* a pass that issued no pod call computed the status the set already held,
\* and wrote nothing
C33_Witness ==
    /\ last.valid
    /\ ~last.again
    /\ ~last.err
    /\ last.ops = <<>>
    /\ LastCompleted = last.set.status
    /\ last.status.replicas > 0
    /\ ~last.wrote

---------------------------------------------------------------------------
(* One pass over a pod list that holds a pod the store does not index: a   *)
(* pod whose name yields no ordinal, or a second pod with the ordinal of   *)
(* another (a pod of another parent name that the caller handed in).  The  *)
(* template was edited from 1 to 2; the store holds no pod or a healthy,   *)
(* a failed or a terminating pod at every ordinal.  The store keeps one    *)
(* pod per ordinal, the pods of the set's own name.                        *)

ListingSet(n, policy, podUpdatePolicy) ==
    [UpdatingSet(policy, "RollingUpdate", 0, Nil, podUpdatePolicy)
        EXCEPT !.replicas = n]

ListingShapes(s, o) ==
    {NoPod, PodIn(o, "Failed", FALSE, RevisionName(1)),
     [HealthyPod(s, o, RevisionName(1)) EXCEPT !.term = TRUE]}
    \cup {HealthyPod(s, o, RevisionName(t)) : t \in {1, 2}}

\* the pods handed in besides the store's: ordinal -1 stands for a name
\* that yields no ordinal
ExtraPods(s) ==
    UNION {{HealthyPod(s, o, RevisionName(1)),
            PodIn(o, "Failed", FALSE, RevisionName(1)),
            [HealthyPod(s, o, RevisionName(2)) EXCEPT !.term = TRUE]} :
              o \in {-1} \cup Ordinals}

\* the pod lists UpdateStatefulSet may be handed for the store
Listings(s, store) ==
    {Snapshot(store)}
    \cup {<<e>> \o Snapshot(store) : e \in ExtraPods(s)}
    \cup {Snapshot(store) \o <<e>> : e \in ExtraPods(s)}

InitListingPass ==
    /\ \E n \in 0 .. MaxReplicas :
          \/ set = ListingSet(n, "OrderedReady", "Recreate")
          \/ set = ListingSet(n, "Parallel", "InPlaceIfPossible")
    /\ pods \in [Ordinals -> UNION {ListingShapes(set, o) : o \in Ordinals}]
    /\ \A o \in Ordinals : pods[o] \in ListingShapes(set, o)
    /\ revisions = {RevisionOf(1, 1), RevisionOf(2, 2)}
    /\ last = NoPass

\* UpdateStatefulSet(set, pods) with the pod list `listing`
UpdateStatefulSetWith(listing) ==
    \E fail \in FailsOf(getStatefulSetRevisions(set, ListRevisions),
                        updateStatefulSet(set,
                            getStatefulSetRevisions(set, ListRevisions).cur,
                            getStatefulSetRevisions(set, ListRevisions).upd,
                            listing, ListRevisions, pods, NoFail)) :
        WithRevisions(getStatefulSetRevisions(set, ListRevisions), listing,
                      ListRevisions, fail)

ReconcileListing ==
    /\ ~last.valid
    /\ \E listing \in Listings(set, pods) : UpdateStatefulSetWith(listing)

NextListingPass == ReconcileListing

SpecListingPass == InitListingPass /\ [][NextListingPass]_vars

\* the pod the first loop of the last pass left in replicas[o]: the last pod
\* of the snapshot with ordinal o
PlacedAt(o) == SnapshotAt(o)[Len(SnapshotAt(o))]

\* the last pass's snapshot holds two pods with ordinal o
DuplicateAt(o) == Len(SnapshotAt(o)) = 2

\* the forward sweep of the last pass called DeleteStatefulPod at ordinal o
ForwardDeleteAt(o) ==
    \E k \in 1 .. Len(last.ops) :
        IsCall(k, "delete", o) /\ last.ops[k].sweep = "forward"

ForeignPositions == {k \in 1 .. Len(last.snapshot) : getOrdinal(last.snapshot[k]) < 0}

\* the pods of a sequence
PodsOf(list) == {list[k] : k \in 1 .. Len(list)}

\* C35 (foreign pods): a pod of the snapshot whose ordinal is below 0 is in
\* neither replicas nor condemned, no call of the pass has it as its target,
\* and the pass does with the other pods what it does when the foreign pod
\* is not in the list: the store after the pass holds, at every ordinal,
\* no pod, the pod the store held before, or a pod created or changed by a
\* call for that ordinal.
C35_ForeignPods ==
    last.valid =>
        \A k \in ForeignPositions :
            /\ \A o \in 0 .. (last.set.replicas - 1) :
                  PlaceReplicas(last.snapshot, Len(last.snapshot),
                                last.set.replicas)[o] # last.snapshot[k]
            /\ last.snapshot[k] \notin
                  PodsOf(Condemned(last.snapshot, Len(last.snapshot),
                                   last.set.replicas))
            /\ \A j \in 1 .. Len(last.ops) : last.ops[j].ord >= 0
            /\ \A o \in Ordinals :
                  \/ pods[o] = NoPod
                  \/ \E j \in 1 .. Len(last.snapshot) :
                        /\ getOrdinal(last.snapshot[j]) = o
                        /\ pods[o] = last.snapshot[j]
                  \/ \E j \in 1 .. Len(last.ops) : last.ops[j].ord = o /\ last.ops[j].ok

\* a Parallel pass was handed a failed pod whose name yields no ordinal and a
\* condemned pod: it deleted the condemned pod and issued no call for the
\* foreign pod
C35_Witness ==
    /\ last.valid
    /\ \E k \in ForeignPositions : isFailed(last.snapshot[k])
    /\ last.set.policy = "Parallel"
    /\ Len(ScaleDownCalls) > 0
    /\ \A j \in 1 .. Len(last.ops) : last.ops[j].ord >= 0
    /\ last.status.replicas = Len(last.snapshot)

\* the number of pods of the last pass's snapshot that satisfy P
CountWhere(P(_)) == Cardinality({k \in 1 .. Len(last.snapshot) : P(last.snapshot[k])})

\* created and not terminating, with the revision label rev
LiveAt(pod, rev) ==
    isCreated(pod) /\ ~isTerminating(pod) /\ getPodRevision(pod) = rev

\* the last pass issued no CreateStatefulPod and no DeleteStatefulPod call
NoCreateNoDelete ==
    \A k \in 1 .. Len(last.ops) : last.ops[k].kind \notin {"create", "delete"}

\* the ordinals at which the update sweep of the last pass began an in-place
\* update
InPlaceBegunAt ==
    {o \in Ordinals :
        \E k \in 1 .. Len(last.ops) :
            /\ last.ops[k].ord = o
            /\ last.ops[k].sweep = "update"
            /\ last.ops[k].kind = "cond"}

\* C32 (status counting): in a pass that issues no create and no delete, the
\* returned status has replicas = the number of pods of the snapshot (those
\* with ordinal below 0 or not below spec.replicas included), readyReplicas =
\* the number of running and ready pods, updatedReplicas = the number of
\* created non-terminating pods with the update revision's name,
\* currentReplicas = the number of created non-terminating pods with the
\* current revision's name less the pods the update sweep began to update in
\* place, and the names of the revisions resolved for the pass.
C32_StatusCounting ==
    (last.valid /\ NoCreateNoDelete) =>
        /\ last.status.replicas = Len(last.snapshot)
        /\ last.status.readyReplicas = CountWhere(isRunningAndReady)
        /\ last.status.updatedReplicas = CountWhere(LAMBDA pod : LiveAt(pod, last.upd))
        /\ last.status.currentReplicas =
              CountWhere(LAMBDA pod : LiveAt(pod, last.cur)) - Cardinality(InPlaceBegunAt)
        /\ last.status.currentRevision = last.cur
        /\ last.status.updateRevision = last.upd

\* a pass over a list with a foreign pod and a condemned terminating pod
\* patched a pod in place and issued no create and no delete; the patched pod
\* is not in status.currentReplicas
C32_Witness ==
    /\ last.valid
    /\ NoCreateNoDelete
    /\ ForeignPositions # {}
    /\ \E k \in 1 .. Len(last.snapshot) :
          getOrdinal(last.snapshot[k]) >= last.set.replicas
    /\ Cardinality(InPlaceBegunAt) = 1
    /\ last.status.currentReplicas = CountWhere(LAMBDA pod : LiveAt(pod, last.cur)) - 1
    /\ last.status.replicas = Len(last.snapshot)

\* C32 as stated: in a pass that issues no create and no delete, every
\* counter is the count over the snapshot
C32_AsStated ==
    (last.valid /\ NoCreateNoDelete) =>
        /\ last.status.replicas = Len(last.snapshot)
        /\ last.status.readyReplicas = CountWhere(isRunningAndReady)
        /\ last.status.updatedReplicas = CountWhere(LAMBDA pod : LiveAt(pod, last.upd))
        /\ last.status.currentReplicas = CountWhere(LAMBDA pod : LiveAt(pod, last.cur))
        /\ last.status.currentRevision = last.cur
        /\ last.status.updateRevision = last.upd

---------------------------------------------------------------------------
(* One pass that may scale and update at once: the template was edited     *)
(* from 1 to 2 and the new revision exists, spec.replicas is any count,    *)
(* and every ordinal holds no pod, a healthy pod of either revision, a     *)
(* pending or a terminating pod of the first revision, or a failed pod,    *)
(* terminating or not.                                                     *)

\* the set after the edit, with n replicas
MixedSet(n, policy, partition, maxUnavailable, podUpdatePolicy) ==
    [UpdatingSet(policy, "RollingUpdate", partition, maxUnavailable, podUpdatePolicy)
        EXCEPT !.replicas = n]

MixedShapes(s, o) ==
    {NoPod, [HealthyPod(s, o, RevisionName(1)) EXCEPT !.term = TRUE],
     PodIn(o, "Pending", FALSE, RevisionName(1)),
     PodIn(o, "Failed", FALSE, RevisionName(1))}
    \cup {HealthyPod(s, o, RevisionName(t)) : t \in {1, 2}}
    \cup {PodIn(o, "Failed", TRUE, RevisionName(t)) : t \in {1, 2}}

InitMixedPass ==
    /\ \E n \in 0 .. MaxReplicas, policy \in {"OrderedReady", "Parallel"},
          partition \in {0, 1}, maxUnavailable \in {Nil, FromInt(2)},
          podUpdatePolicy \in {"Recreate", "InPlaceIfPossible"} :
          set = MixedSet(n, policy, partition, maxUnavailable, podUpdatePolicy)
    /\ pods \in [Ordinals -> UNION {MixedShapes(set, o) : o \in Ordinals}]
    /\ \A o \in Ordinals : pods[o] \in MixedShapes(set, o)
    /\ revisions = {RevisionOf(1, 1), RevisionOf(2, 2)}
    /\ last = NoPass

NextMixedPass == ReconcileOnce

SpecMixedPass == InitMixedPass /\ [][NextMixedPass]_vars

\* the calls of the last pass that create a pod
CreateCalls == SelectSeq(last.ops, LAMBDA op : op.kind = "create")

\* the update actions of the last pass: the deletes and the in-place
\* updates its update sweep called for
UpdateActions ==
    SelectSeq(UpdateSweepCalls, LAMBDA op : op.kind \in {"delete", "inplace"})

\* C37 (scaling before updates): when an OrderedReady pass calls
\* DeleteStatefulPod or InPlaceUpdateStatefulPod in its update sweep, its
\* snapshot holds at every ordinal below spec.replicas a pod that is running
\* and ready and not terminating, it holds no pod of ordinal spec.replicas or
\* more, and the pass called neither CreateStatefulPod nor a delete in its
\* forward or scale-down sweep.
C37_ScalingFirst ==
    (last.valid /\ last.set.policy = "OrderedReady" /\ Len(UpdateActions) > 0) =>
        /\ \A o \in Ordinals : o < last.set.replicas => WasReadyAt(o)
        /\ CondemnedOrdinals = {}
        /\ Len(CreateCalls) = 0
        /\ \A k \in 1 .. Len(last.ops) :
              last.ops[k].kind = "delete" => last.ops[k].sweep = "update"

\* an OrderedReady pass over two healthy pods of the first revision and
\* nothing else deleted the pod at ordinal 1 for the update
C37_Witness ==
    /\ last.valid
    /\ last.set.policy = "OrderedReady"
    /\ last.set.replicas = 2
    /\ \A o \in {0, 1} : WasReadyAt(o) /\ getPodRevision(LastStore[o]) = RevisionName(1)
    /\ CondemnedOrdinals = {}
    /\ Len(UpdateActions) = 1
    /\ UpdateActions[1].ord = 1
    /\ UpdateActions[1].ok

---------------------------------------------------------------------------
(* The range of the status counters.                                       *)

\* the ordinals below spec.replicas at which the last pass's snapshot holds
\* a pod of revision rev that is Failed and terminating at once
FailedTerminatingAt(rev) ==
    {o \in Ordinals :
        /\ o < last.set.replicas
        /\ LastStore[o] # NoPod
        /\ isFailed(LastStore[o])
        /\ isTerminating(LastStore[o])
        /\ getPodRevision(LastStore[o]) = rev}

\* C38 (status counters stay in range): the status returned by a pass in
\* which no pod call failed has 0 <= currentReplicas, 0 <= updatedReplicas
\* and 0 <= readyReplicas <= replicas.
C38_AsStated ==
    (last.valid /\ ~PodCallFailed) =>
        /\ 0 <= last.status.currentReplicas
        /\ 0 <= last.status.updatedReplicas
        /\ 0 <= last.status.readyReplicas
        /\ last.status.readyReplicas <= last.status.replicas

\* what does hold of every pass: readyReplicas is in range, and a counter of
\* pods by revision is below 0 by no more than the snapshot's pods of that
\* revision below spec.replicas that are Failed and terminating at once
C38_InRangeOtherwise ==
    last.valid =>
        /\ 0 <= last.status.readyReplicas
        /\ last.status.readyReplicas <= last.status.replicas
        /\ 0 <= last.status.replicas
        /\ last.status.currentReplicas >= 0 - Cardinality(FailedTerminatingAt(last.cur))
        /\ last.status.updatedReplicas >= 0 - Cardinality(FailedTerminatingAt(last.upd))

\* a pass replaced a pod of the current revision that was Failed and
\* terminating, returned no error, and stored currentReplicas = -1
C38_Negative ==
    /\ last.valid
    /\ ~last.err
    /\ last.wrote
    /\ FailedTerminatingAt(last.cur) # {}
    /\ set.status.currentReplicas = -1

---------------------------------------------------------------------------
(* A pod the pass created.                                                 *)

\* call number k of the last pass is a CreateStatefulPod
IsCreateCall(k) == last.ops[k].kind = "create"

\* the calls of the last pass that come after call number k and have the
\* same pod as their target
LaterCallsOn(k) ==
    {j \in (k + 1) .. Len(last.ops) : last.ops[j].ord = last.ops[k].ord}

\* C39 (no create-then-disrupt in one pass): under either pod management
\* policy, after a pass has called CreateStatefulPod for an ordinal it makes
\* no further call for that ordinal: no DeleteStatefulPod, no
\* InPlaceUpdateStatefulPod and no condition update; the update sweep does
\* not record the ordinal as disrupted, and a pod whose create succeeded is
\* in the store after the pass, not terminating, at the revision it was
\* created with.
C39_NoCreateThenDisrupt ==
    last.valid =>
        \A k \in 1 .. Len(last.ops) :
            IsCreateCall(k) =>
                /\ LaterCallsOn(k) = {}
                /\ \A j \in 1 .. Len(last.seen) :
                      last.seen[j].ord = last.ops[k].ord => ~last.seen[j].disrupted
                /\ last.ops[k].ok =>
                      /\ pods[last.ops[k].ord] # NoPod
                      /\ ~isTerminating(pods[last.ops[k].ord])
                      /\ getPodRevision(pods[last.ops[k].ord]) =
                             (IF last.ops[k].ord < Partition(last.set)
                              THEN last.cur ELSE last.upd)

\* a Parallel pass created the missing pod at ordinal 0 and replaced the
\* failed pod at ordinal 2; its update sweep went past the new pod at
\* ordinal 2 and deleted the outdated pod at ordinal 1
C39_Witness ==
    /\ last.valid
    /\ last.set.policy = "Parallel"
    /\ last.set.replicas = 3
    /\ isFailed(LastStore[2])
    /\ LastStore[0] = NoPod
    /\ \E k \in 1 .. Len(last.ops) : IsCreateCall(k) /\ last.ops[k].ord = 2 /\ last.ops[k].ok
    /\ \E k \in 1 .. Len(last.ops) : IsCreateCall(k) /\ last.ops[k].ord = 0 /\ last.ops[k].ok
    /\ \E j \in 1 .. Len(last.seen) : last.seen[j].ord = 2
    /\ \E k \in 1 .. Len(UpdateActions) : UpdateActions[k].ord = 1 /\ UpdateActions[k].ok

---------------------------------------------------------------------------
(* One pass of an update under every kind of maxUnavailable: unset, a      *)
(* number (0 included) or a percentage of spec.replicas.  The set has n    *)
(* replicas and as many pods, each healthy at either revision, pending or  *)
(* terminating at the first one.                                           *)

FromPercent(v) == [type |-> "percent", val |-> v]

WindowValues == {Nil, FromInt(0), FromInt(1), FromInt(2),
                 FromPercent(10), FromPercent(50), FromPercent(100)}

WindowShapes(s, o) ==
    {[HealthyPod(s, o, RevisionName(1)) EXCEPT !.term = TRUE],
     PodIn(o, "Pending", FALSE, RevisionName(1))}
    \cup {HealthyPod(s, o, RevisionName(t)) : t \in {1, 2}}

InitWindowPass ==
    /\ \E n \in 1 .. MaxReplicas, policy \in {"OrderedReady", "Parallel"},
          maxUnavailable \in WindowValues,
          podUpdatePolicy \in {"Recreate", "InPlaceIfPossible"} :
          set = MixedSet(n, policy, 0, maxUnavailable, podUpdatePolicy)
    /\ pods \in [Ordinals -> {NoPod} \cup UNION {WindowShapes(set, o) : o \in Ordinals}]
    /\ \A o \in Ordinals :
          IF o < set.replicas THEN pods[o] \in WindowShapes(set, o) ELSE pods[o] = NoPod
    /\ revisions = {RevisionOf(1, 1), RevisionOf(2, 2)}
    /\ last = NoPass

NextWindowPass == ReconcileOnce

SpecWindowPass == InitWindowPass /\ [][NextWindowPass]_vars

\* maxUnavailable of the last pass's set as the claim resolves it: 1 when
\* unset, the number, or the largest m with m/replicas within the percentage
ResolvedMaxUnavailable ==
    LET mu == last.set.maxUnavailable
        N == last.set.replicas
    IN IF mu.type = "nil" THEN 1
       ELSE IF mu.type = "int" THEN mu.val
       ELSE CHOOSE m \in 0 .. N : m * 100 <= mu.val * N /\ (m + 1) * 100 > mu.val * N

\* the last pass got to its update sweep: no call of the forward sweep
\* failed, and under OrderedReady the snapshot held a running and ready,
\* non-terminating pod at every ordinal below spec.replicas
UpdateSweepReached ==
    /\ \A k \in 1 .. Len(last.ops) : last.ops[k].sweep = "forward" => last.ops[k].ok
    /\ last.set.policy = "OrderedReady" =>
          \A o \in Ordinals : o < last.set.replicas => WasReadyAt(o)

====
